---- MODULE Spec2Model ----
(***************************************************************************)
(* Story status management of JiraService (src/src/services/jira.ts):      *)
(* getRelatedTasks, analyzeStoryStatus, updateStoryStatusBasedOnTasks and  *)
(* updateAllStoryStatuses, run against a remote JIRA whose calls may fail  *)
(* and whose task statuses may be changed by other users at any time.      *)
(*                                                                         *)
(* One step of the model is the completion of one awaited external call    *)
(* followed by the synchronous code up to the next await; the steps        *)
(* Analyze, Decide and Return are the synchronous code between awaits    *)
(* (they read and write only locals of the running call).                  *)
(*                                                                         *)
(* Further parts, each with its own specification: validateProjectStructure*)
(* (SpecValidate), formatJiraText (SpecFormat), initialize and the legacy  *)
(* discovery behind the tool handlers (SpecService), createProjectHierarchy*)
(* (SpecHierarchy), and of src/src/setup.ts verifyMcpServerConnection      *)
(* (SpecVerify) and createClaudeCodeConfig (SpecConfig).                   *)
(***************************************************************************)
EXTENDS Integers, Sequences, FiniteSets, TLC

(* ---------------------------- bounds ----------------------------------- *)

\* external calls that may fail during one public call
MaxFailures == 1

\* task status changes made by other users while one public call is running
MaxChanges == 1

(* ------------------------- remote data --------------------------------- *)

Status == {"To Do", "In Progress", "Done", "Blocked"}

None == [key |-> "", type |-> ""]

Issue(k, t) == [key |-> k, type |-> t]

Link(inw, outw) == [inwardIssue |-> inw, outwardIssue |-> outw]

EpicKey == "E-1"

\* an epic with two stories and a bug; S-1 is linked to two tasks (one
\* inward, one outward) and to the bug, S-2 to one task by a link that
\* carries both ends
TopoMixed ==
  [ epicIssues |-> << Issue("S-1", "Story"), Issue("B-1", "Bug"), Issue("S-2", "Story") >>,
    links |-> [ k \in {"S-1", "S-2", "B-1"} |->
                  CASE k = "S-1" -> << Link(Issue("T-1", "Task"), None),
                                       Link(Issue("B-1", "Bug"), None),
                                       Link(None, Issue("T-2", "Task")) >>
                    [] k = "S-2" -> << Link(Issue("T-3", "Task"), Issue("S-1", "Story")) >>
                    [] OTHER     -> << >> ],
    tasks |-> {"T-1", "T-2", "T-3"} ]

\* the epic of the two-story scenario: S-1 with three tasks, S-2 with two
TopoScenario ==
  [ epicIssues |-> << Issue("S-1", "Story"), Issue("S-2", "Story") >>,
    links |-> [ k \in {"S-1", "S-2"} |->
                  IF k = "S-1"
                  THEN << Link(Issue("T-1", "Task"), None),
                          Link(Issue("T-2", "Task"), None),
                          Link(Issue("T-3", "Task"), None) >>
                  ELSE << Link(Issue("T-4", "Task"), None),
                          Link(Issue("T-5", "Task"), None) >> ],
    tasks |-> {"T-1", "T-2", "T-3", "T-4", "T-5"} ]

Keys(topo) == DOMAIN topo.links

(* ------------------------- pure helpers -------------------------------- *)

\* link.inwardIssue || link.outwardIssue
relatedIssue(link) ==
  IF link.inwardIssue # None THEN link.inwardIssue ELSE link.outwardIssue

RECURSIVE relatedTaskKeysOf(_)
\* links.filter(related issue is a Task).map(key).filter(defined)
relatedTaskKeysOf(ls) ==
  IF ls = << >> THEN << >>
  ELSE LET r == relatedIssue(Head(ls)) IN
       IF r # None /\ r.type = "Task"
       THEN << r.key >> \o relatedTaskKeysOf(Tail(ls))
       ELSE relatedTaskKeysOf(Tail(ls))

\* the epic's issues without the filter on the issue type
storiesOf_All(issues) == [ n \in 1 .. Len(issues) |-> issues[n].key ]

RECURSIVE storiesOf(_)
\* epicIssues.filter(issue => issue.fields.issuetype.name === 'Story')
storiesOf(issues) ==
  IF issues = << >> THEN << >>
  ELSE IF Head(issues).type = "Story"
       THEN << Head(issues).key >> \o storiesOf(Tail(issues))
       ELSE storiesOf(Tail(issues))

RECURSIVE countStatus(_, _)
\* relatedTasks.filter(task => task.fields.status.name === name).length
countStatus(ts, name) ==
  IF ts = << >> THEN 0
  ELSE (IF Head(ts).status = name THEN 1 ELSE 0) + countStatus(Tail(ts), name)

\* a summary that takes every task that is not Done or In Progress for To Do
tasksSummaryOf_RestToDo(ts) ==
  [ total      |-> Len(ts),
    done       |-> countStatus(ts, "Done"),
    inProgress |-> countStatus(ts, "In Progress"),
    toDo       |-> Len(ts) - countStatus(ts, "Done") ]

tasksSummaryOf(ts) ==
  [ total      |-> Len(ts),
    done       |-> countStatus(ts, "Done"),
    inProgress |-> countStatus(ts, "In Progress"),
    toDo       |-> countStatus(ts, "To Do") ]

\* shouldBeDone without the total > 0 conjunct
shouldBeDoneOf_Vacuous(sum) == sum.done = sum.total

shouldBeDoneOf(sum) == sum.total > 0 /\ sum.done = sum.total

\* shouldBeInProgress that forgets finished tasks
shouldBeInProgressOf_OnlyStarted(sum) ==
  ~shouldBeDoneOf(sum) /\ sum.inProgress > 0

shouldBeInProgressOf(sum) ==
  ~shouldBeDoneOf(sum) /\ (sum.inProgress > 0 \/ sum.done > 0)

NoAnalysis == [ defined |-> FALSE ]

analysisOf(st, ts) ==
  [ defined            |-> TRUE,
    story              |-> st,
    relatedTasks       |-> ts,
    shouldBeInProgress |-> shouldBeInProgressOf(tasksSummaryOf(ts)),
    shouldBeDone       |-> shouldBeDoneOf(tasksSummaryOf(ts)),
    currentStatus      |-> st.status,
    tasksSummary       |-> tasksSummaryOf(ts) ]

ReasonDone(sum) == "All " \o ToString(sum.total) \o " related tasks are completed"

\* the reason that counts only the tasks In Progress
ReasonInProgress_OnlyStarted(sum) ==
  ToString(sum.inProgress) \o " of " \o ToString(sum.total)
    \o " tasks are started/completed"

ReasonInProgress(sum) ==
  ToString(sum.inProgress + sum.done) \o " of " \o ToString(sum.total)
    \o " tasks are started/completed"

\* the decision with the two transition ids exchanged
decisionOf_SwappedIds(a) ==
  IF a.shouldBeDone /\ a.currentStatus # "Done"
  THEN [ targetStatus |-> "Done", transitionId |-> "21",
         reason |-> ReasonDone(a.tasksSummary) ]
  ELSE IF a.shouldBeInProgress /\ a.currentStatus = "To Do"
  THEN [ targetStatus |-> "In Progress", transitionId |-> "31",
         reason |-> ReasonInProgress(a.tasksSummary) ]
  ELSE [ targetStatus |-> a.currentStatus, transitionId |-> "", reason |-> "" ]

\* the decision whose second row fires from any current status
decisionOf_AnyToInProgress(a) ==
  IF a.shouldBeDone /\ a.currentStatus # "Done"
  THEN [ targetStatus |-> "Done", transitionId |-> "31",
         reason |-> ReasonDone(a.tasksSummary) ]
  ELSE IF a.shouldBeInProgress
  THEN [ targetStatus |-> "In Progress", transitionId |-> "21",
         reason |-> ReasonInProgress(a.tasksSummary) ]
  ELSE [ targetStatus |-> a.currentStatus, transitionId |-> "", reason |-> "" ]

\* the decision whose second row tests for "not yet In Progress"
decisionOf_NotInProgress(a) ==
  IF a.shouldBeDone /\ a.currentStatus # "Done"
  THEN [ targetStatus |-> "Done", transitionId |-> "31",
         reason |-> ReasonDone(a.tasksSummary) ]
  ELSE IF a.shouldBeInProgress /\ a.currentStatus # "In Progress"
  THEN [ targetStatus |-> "In Progress", transitionId |-> "21",
         reason |-> ReasonInProgress(a.tasksSummary) ]
  ELSE [ targetStatus |-> a.currentStatus, transitionId |-> "", reason |-> "" ]

\* the decision whose second row tests "not done" instead of shouldBeInProgress
decisionOf_NotDone(a) ==
  IF a.shouldBeDone /\ a.currentStatus # "Done"
  THEN [ targetStatus |-> "Done", transitionId |-> "31",
         reason |-> ReasonDone(a.tasksSummary) ]
  ELSE IF ~a.shouldBeDone /\ a.currentStatus = "To Do"
  THEN [ targetStatus |-> "In Progress", transitionId |-> "21",
         reason |-> ReasonInProgress(a.tasksSummary) ]
  ELSE [ targetStatus |-> a.currentStatus, transitionId |-> "", reason |-> "" ]

\* the "Determine target status" block
decisionOf(a) ==
  IF a.shouldBeDone /\ a.currentStatus # "Done"
  THEN [ targetStatus |-> "Done", transitionId |-> "31",
         reason |-> ReasonDone(a.tasksSummary) ]
  ELSE IF a.shouldBeInProgress /\ a.currentStatus = "To Do"
  THEN [ targetStatus |-> "In Progress", transitionId |-> "21",
         reason |-> ReasonInProgress(a.tasksSummary) ]
  ELSE [ targetStatus |-> a.currentStatus, transitionId |-> "", reason |-> "" ]

\* if (transitionId && targetStatus !== currentStatus)
needsUpdate(a, d) == d.transitionId # "" /\ d.targetStatus # a.currentStatus

\* the status a transition of the remote's default workflow leads to
transitionTarget(id) == IF id = "31" THEN "Done" ELSE "In Progress"

(* ----------------------------- state ----------------------------------- *)

VARIABLES
  status,           \* remote: issue key -> fields.status.name
  topo,             \* remote: the epic's issues and every issue's links
  pc,               \* the await the running public call is suspended at
  op,               \* the running public call
  calls,            \* external calls completed during the running call
  failures,         \* external calls that failed during the running call
  changes,          \* task status changes made during the running call
  stories,          \* updateAllStoryStatuses: stories
  i,                \* updateAllStoryStatuses: position of the for loop
  updates,          \* updateAllStoryStatuses: updates
  storiesUpdated,   \* updateAllStoryStatuses: storiesUpdated
  attempts,         \* updateAllStoryStatuses: outcome of each loop iteration
  storyKey,         \* argument of the running per-story call
  story,            \* analyzeStoryStatus: story
  relatedTaskKeys,  \* getRelatedTasks: relatedTaskKeys still to fetch
  relatedTasks,     \* getRelatedTasks: relatedTasks
  analysis,         \* value returned by analyzeStoryStatus
  decision,         \* updateStoryStatusBasedOnTasks: targetStatus, transitionId, reason
  ret,              \* outcome of updateStoryStatusBasedOnTasks
  result,           \* outcome of the last public call
  validation,       \* validateProjectStructure: issues, warnings, epicIssues, loop position
  text,             \* formatJiraText: text
  parts,            \* the pieces of markup the text was put together from
  isLegacyMode,     \* JiraService.isLegacyMode
  serverCapabilities, \* JiraService.serverCapabilities: hasIssueLinks, or null
  previous,         \* how the public call before the running one ended
  jiraService,      \* index.ts: the module's jiraService is not null
  env,              \* process.env: which JIRA variables are set, JIRA_LEGACY_API = 'true'
  initialized,      \* JiraService.initialized
  clients,          \* how often axios.create built the clients; 0: client is null
  fieldMappings,    \* JiraService.fieldMappings
  discovery,        \* the await initializeLegacyFieldMappings is suspended at
  server,           \* remote: what the JIRA Server answers to the discovery
  issuePayload,     \* createTicket: issuePayload
  response,         \* what the tool handler has resolved with
  serverProcess,    \* verifyMcpServerConnection: the spawned child
  killed,           \* serverProcess.kill() has been called
  timeout,          \* the 5 second timer
  output,           \* what the child has written to stdout, in pieces
  verified,         \* the promise verifyMcpServerConnection returns
  events,           \* history: the events of the child and the timer, in order
  claudeJson,       \* the file ~/.claude.json
  config,           \* createClaudeCodeConfig: the SetupConfig of the last call
  before,           \* history: ~/.claude.json before the last call
  hierarchy,        \* createProjectHierarchy: the number of tasks of each story
  results,          \* createProjectHierarchy: results
  tasks             \* createProjectHierarchy: tasks of the story at hand

vars == << status, topo, pc, op, calls, failures, changes, stories, i, updates,
           storiesUpdated, attempts, storyKey, story, relatedTaskKeys,
           relatedTasks, analysis, decision, ret, result, validation, text,
           parts, isLegacyMode, serverCapabilities, previous, jiraService, env,
           initialized, clients, fieldMappings, discovery, server, issuePayload, response, serverProcess, killed, timeout, output,
          verified, events, claudeJson, config, before, hierarchy, results, tasks >>

\* what the story status methods neither read nor write
\* the service's configuration and its background discovery
serviceVars ==
  << jiraService, env, initialized, clients, fieldMappings, discovery, server, issuePayload,
     response >>

verifyVars == << serverProcess, killed, timeout, output, verified, events >>

configVars == << claudeJson, config, before >>

setupVars == << verifyVars, configVars >>

hierarchyVars == << hierarchy, results, tasks >>

otherVars == << validation, text, parts, isLegacyMode, serverCapabilities, previous,
               serviceVars, setupVars, hierarchyVars >>

\* what validateProjectStructure and formatJiraText neither read nor write
laterVars == << previous, serviceVars, setupVars, hierarchyVars >>

formatVars == << text, parts >>

remoteVars == << status, topo >>

batchVars == << stories, i, updates, storiesUpdated, attempts >>

storyVars == << story, relatedTaskKeys, relatedTasks, analysis, decision, ret >>

NoStory == [key |-> "", status |-> ""]

NoDecision == [targetStatus |-> "", transitionId |-> "", reason |-> ""]

NoRet == [ok |-> FALSE, pending |-> TRUE]

NoResult == [ok |-> FALSE, pending |-> TRUE]

NoValidation == [ issues |-> << >>, warnings |-> << >>, epicIssues |-> << >>, at |-> 0 ]

\* private serverCapabilities = null
NoCapabilities == [ known |-> FALSE, hasIssueLinks |-> FALSE ]

NoPrevious == [ op |-> "none", clean |-> FALSE ]

Call(name, k, id, ok) == [op |-> name, key |-> k, id |-> id, ok |-> ok]

Thrown(msg) == [ok |-> FALSE, pending |-> FALSE, error |-> msg]

\* locals of one per-story call, before it starts
FreshStory ==
  /\ story' = NoStory
  /\ relatedTaskKeys' = << >>
  /\ relatedTasks' = << >>
  /\ analysis' = NoAnalysis
  /\ decision' = NoDecision
  /\ ret' = NoRet

FreshBatch ==
  /\ stories' = << >>
  /\ i' = 0
  /\ updates' = << >>
  /\ storiesUpdated' = 0
  /\ attempts' = << >>

NoConfig == [ JIRA_BASE_URL |-> "", JIRA_PROJECT_KEY |-> "" ]

\* the setup has not been run: no child process, no ~/.claude.json
SetupNotRun ==
  /\ serverProcess = "none"
  /\ killed = FALSE
  /\ timeout = "none"
  /\ output = << >>
  /\ verified = "none"
  /\ events = << >>
  /\ claudeJson = [ kind |-> "absent" ]
  /\ config = NoConfig
  /\ before = [ kind |-> "absent" ]

\* locals of one call, before it starts
InitLocals ==
  /\ pc = "idle"
  /\ op = "none"
  /\ calls = << >>
  /\ failures = 0
  /\ changes = 0
  /\ stories = << >>
  /\ i = 0
  /\ updates = << >>
  /\ storiesUpdated = 0
  /\ attempts = << >>
  /\ storyKey = ""
  /\ story = NoStory
  /\ relatedTaskKeys = << >>
  /\ relatedTasks = << >>
  /\ analysis = NoAnalysis
  /\ decision = NoDecision
  /\ ret = NoRet
  /\ result = NoResult
  /\ validation = NoValidation
  /\ text = << >>
  /\ parts = << >>
  /\ previous = NoPrevious
  /\ SetupNotRun
  /\ hierarchy = << >>
  /\ results = << >>
  /\ tasks = << >>

NoPayload == [ epicLinkField |-> "" ]

\* the promise of the tool handler is pending
NoResponse == [ content |-> << >> ]

\* private fieldMappings = {}
NoMappings == [ epicLink |-> "undefined" ]

\* the fallback of a discovery that found no field or failed
DefaultMappings == [ epicLink |-> "customfield_10014" ]

Environment ==
  [ JIRA_BASE_URL : BOOLEAN, JIRA_API_TOKEN : BOOLEAN, JIRA_EMAIL : BOOLEAN,
    JIRA_LEGACY_API : BOOLEAN ]

\* a service that a first call has initialised
ServiceInUse ==
  /\ jiraService = TRUE
  /\ env = [ JIRA_BASE_URL |-> TRUE, JIRA_API_TOKEN |-> TRUE, JIRA_EMAIL |-> TRUE,
             JIRA_LEGACY_API |-> isLegacyMode ]
  /\ initialized = TRUE
  /\ clients = 1
  /\ fieldMappings = IF serverCapabilities.known THEN DefaultMappings ELSE NoMappings
  /\ discovery = IF ~isLegacyMode THEN "none"
                 ELSE IF serverCapabilities.known THEN "done" ELSE "field"
  /\ server = [ hasIssueLinks |-> TRUE, epicLink |-> "absent" ]
  /\ issuePayload = NoPayload
  /\ response = NoResponse

\* JIRA Cloud: JIRA_LEGACY_API is not 'true', no capability discovery
InitCloud ==
  /\ isLegacyMode = FALSE
  /\ serverCapabilities = NoCapabilities
  /\ ServiceInUse

\* any statuses of the stories and tasks of the mixed epic
Init ==
  /\ topo = TopoMixed
  /\ status \in [Keys(topo) \cup topo.tasks -> Status]
  /\ status["B-1"] = "To Do"
  /\ InitLocals
  /\ InitCloud

\* the two-story scenario: S-1's three tasks Done, S-2's tasks Done and To Do
InitScenario ==
  /\ topo = TopoScenario
  /\ status \in [Keys(topo) \cup topo.tasks -> Status]
  /\ \A t \in {"T-1", "T-2", "T-3", "T-4"} : status[t] = "Done"
  /\ status["T-5"] = "To Do"
  /\ InitLocals
  /\ InitCloud

(* --------------------------- the remote -------------------------------- *)

\* the points where the running call is suspended on an external call
Awaits == { "getEpicIssues", "getTicket", "getIssueLinks", "getTask",
            "updateTicketStatus", "addComment" }

\* another user moves a task to another status: between two public calls, or
\* while the running call is suspended (the synchronous code between two
\* awaits runs without interruption)
TaskStatusChange ==
  /\ pc = "idle" \/ (pc \in Awaits /\ changes < MaxChanges)
  /\ \E t \in topo.tasks, s \in Status :
       /\ s # status[t]
       /\ status' = [status EXCEPT ![t] = s]
  /\ changes' = IF pc = "idle" THEN changes ELSE changes + 1
  /\ UNCHANGED << topo, pc, op, calls, failures, batchVars, storyKey, storyVars, result >>
  /\ UNCHANGED otherVars

CanFail == failures < MaxFailures

(* ------------------------- public entry points ------------------------- *)

\* a tool handler invokes a public method on the idle service
StartCall(name) ==
  /\ pc = "idle"
  /\ op' = name
  /\ UNCHANGED << remoteVars, calls, failures, changes, batchVars, storyVars, result >>
  /\ UNCHANGED otherVars

CallAnalyzeStoryStatus ==
  /\ StartCall("analyzeStoryStatus")
  /\ \E k \in Keys(topo) : storyKey' = k
  /\ pc' = "getTicket"

CallUpdateStoryStatusBasedOnTasks ==
  /\ StartCall("updateStoryStatusBasedOnTasks")
  /\ \E k \in Keys(topo) : storyKey' = k
  /\ pc' = "getTicket"

CallUpdateAllStoryStatuses ==
  /\ StartCall("updateAllStoryStatuses")
  /\ storyKey' = ""
  /\ pc' = "getEpicIssues"

\* the caller has consumed the outcome; every local of the call is discarded
Respond ==
  /\ pc = "done"
  /\ pc' = "idle"
  /\ op' = "none"
  /\ calls' = << >>
  /\ failures' = 0
  /\ changes' = 0
  /\ storyKey' = ""
  /\ result' = NoResult
  /\ FreshBatch
  /\ FreshStory
  /\ UNCHANGED remoteVars
  /\ validation' = NoValidation
  /\ text' = << >>
  /\ parts' = << >>
  /\ UNCHANGED << isLegacyMode, serverCapabilities >>
  /\ UNCHANGED laterVars

(* ----------------------- failure propagation --------------------------- *)

\* message of the Error an external call rejects with
ApiError(name) == "JIRA API error: " \o name

\* catch of analyzeStoryStatus, then (inside updateStoryStatusBasedOnTasks)
\* catch of updateStoryStatusBasedOnTasks
AnalyzeThrows(cause) ==
  LET inner == "Failed to analyze story status for " \o storyKey \o ": Error: " \o cause
  IN  IF op = "analyzeStoryStatus"
      THEN /\ result' = Thrown(inner)
           /\ pc' = "done"
           /\ ret' = ret
      ELSE /\ ret' = Thrown("Failed to update story status for " \o storyKey
                              \o ": Error: " \o inner)
           /\ pc' = "return"
           /\ result' = result

\* catch of updateStoryStatusBasedOnTasks
UpdateThrows(cause) ==
  /\ ret' = Thrown("Failed to update story status for " \o storyKey \o ": Error: " \o cause)
  /\ pc' = "return"

(* ------------------------ analyzeStoryStatus --------------------------- *)

\* const story = await this.getTicket(storyKey)
GetStoryOk ==
  /\ pc = "getTicket"
  /\ story' = [key |-> storyKey, status |-> status[storyKey]]
  /\ calls' = Append(calls, Call("getTicket", storyKey, "", TRUE))
  /\ pc' = "getIssueLinks"
  /\ UNCHANGED << remoteVars, op, failures, changes, batchVars, storyKey,
                  relatedTaskKeys, relatedTasks, analysis, decision, ret, result >>
  /\ UNCHANGED otherVars

GetStoryFail ==
  /\ pc = "getTicket"
  /\ CanFail
  /\ failures' = failures + 1
  /\ calls' = Append(calls, Call("getTicket", storyKey, "", FALSE))
  /\ AnalyzeThrows(ApiError("getTicket"))
  /\ UNCHANGED << remoteVars, op, changes, batchVars, storyKey,
                  story, relatedTaskKeys, relatedTasks, analysis, decision >>
  /\ UNCHANGED otherVars

\* getRelatedTasks: const links = await this.getIssueLinks(storyKey)
GetIssueLinksOk ==
  /\ pc = "getIssueLinks"
  /\ relatedTaskKeys' = relatedTaskKeysOf(topo.links[storyKey])
  /\ relatedTasks' = << >>
  /\ calls' = Append(calls, Call("getIssueLinks", storyKey, "", TRUE))
  /\ pc' = IF relatedTaskKeys' = << >> THEN "analyze" ELSE "getTask"
  /\ UNCHANGED << remoteVars, op, failures, changes, batchVars, storyKey,
                  story, analysis, decision, ret, result >>
  /\ UNCHANGED otherVars

\* the catch of getRelatedTasks rethrows
GetIssueLinksFail ==
  /\ pc = "getIssueLinks"
  /\ CanFail
  /\ failures' = failures + 1
  /\ calls' = Append(calls, Call("getIssueLinks", storyKey, "", FALSE))
  /\ AnalyzeThrows("Failed to get related tasks for " \o storyKey \o ": Error: "
                     \o ApiError("getIssueLinks"))
  /\ UNCHANGED << remoteVars, op, changes, batchVars, storyKey,
                  story, relatedTaskKeys, relatedTasks, analysis, decision >>
  /\ UNCHANGED otherVars

\* getRelatedTasks: const task = await this.getTicket(taskKey); push
GetTaskOk ==
  /\ pc = "getTask"
  /\ LET taskKey == Head(relatedTaskKeys) IN
       /\ relatedTasks' = Append(relatedTasks, [key |-> taskKey, status |-> status[taskKey]])
       /\ calls' = Append(calls, Call("getTicket", taskKey, "", TRUE))
  /\ relatedTaskKeys' = Tail(relatedTaskKeys)
  /\ pc' = IF relatedTaskKeys' = << >> THEN "analyze" ELSE "getTask"
  /\ UNCHANGED << remoteVars, op, failures, changes, batchVars, storyKey,
                  story, analysis, decision, ret, result >>
  /\ UNCHANGED otherVars

\* getRelatedTasks: the inner catch warns and goes on with the next key
GetTaskFail ==
  /\ pc = "getTask"
  /\ CanFail
  /\ failures' = failures + 1
  /\ calls' = Append(calls, Call("getTicket", Head(relatedTaskKeys), "", FALSE))
  /\ relatedTaskKeys' = Tail(relatedTaskKeys)
  /\ pc' = IF relatedTaskKeys' = << >> THEN "analyze" ELSE "getTask"
  /\ UNCHANGED << remoteVars, op, changes, batchVars, storyKey,
                  story, relatedTasks, analysis, decision, ret, result >>
  /\ UNCHANGED otherVars

\* tasksSummary, currentStatus, shouldBeDone, shouldBeInProgress; return
Analyze ==
  /\ pc = "analyze"
  /\ analysis' = analysisOf(story, relatedTasks)
  /\ IF op = "analyzeStoryStatus"
     THEN /\ result' = [ok |-> TRUE, pending |-> FALSE, value |-> analysis']
          /\ pc' = "done"
     ELSE /\ result' = result
          /\ pc' = "decide"
  /\ UNCHANGED << remoteVars, op, calls, failures, changes, batchVars, storyKey,
                  story, relatedTaskKeys, relatedTasks, decision, ret >>
  /\ UNCHANGED otherVars

(* ------------------ updateStoryStatusBasedOnTasks ---------------------- *)

\* "Determine target status", then either the first await of the update
\* branch or the return of 'No status change needed'
Decide ==
  /\ pc = "decide"
  /\ decision' = decisionOf(analysis)
  /\ IF needsUpdate(analysis, decision')
     THEN /\ pc' = "updateTicketStatus"
          /\ ret' = ret
     ELSE /\ pc' = "return"
          /\ ret' = [ ok |-> TRUE, pending |-> FALSE, updated |-> FALSE,
                      oldStatus |-> analysis.currentStatus,
                      newStatus |-> analysis.currentStatus,
                      reason |-> "No status change needed" ]
  /\ UNCHANGED << remoteVars, op, calls, failures, changes, batchVars, storyKey,
                  story, relatedTaskKeys, relatedTasks, analysis, result >>
  /\ UNCHANGED otherVars

\* await this.updateTicketStatus(storyKey, transitionId)
UpdateTicketStatusOk ==
  /\ pc = "updateTicketStatus"
  /\ status' = [status EXCEPT ![storyKey] = transitionTarget(decision.transitionId)]
  /\ calls' = Append(calls, Call("updateTicketStatus", storyKey, decision.transitionId, TRUE))
  /\ pc' = "addComment"
  /\ UNCHANGED << topo, op, failures, changes, batchVars, storyKey, storyVars, result >>
  /\ UNCHANGED otherVars

\* a transition whose failure is ignored: the comment is posted all the same
UpdateTicketStatusFail_Ignored ==
  /\ pc = "updateTicketStatus"
  /\ CanFail
  /\ failures' = failures + 1
  /\ calls' = Append(calls, Call("updateTicketStatus", storyKey, decision.transitionId, FALSE))
  /\ pc' = "addComment"
  /\ UNCHANGED << remoteVars, op, changes, batchVars, storyKey, storyVars, result >>
  /\ UNCHANGED otherVars

UpdateTicketStatusFail ==
  /\ pc = "updateTicketStatus"
  /\ CanFail
  /\ failures' = failures + 1
  /\ calls' = Append(calls, Call("updateTicketStatus", storyKey, decision.transitionId, FALSE))
  /\ UpdateThrows(ApiError("updateTicketStatus"))
  /\ UNCHANGED << remoteVars, op, changes, batchVars, storyKey,
                  story, relatedTaskKeys, relatedTasks, analysis, decision, result >>
  /\ UNCHANGED otherVars

\* await this.addComment(storyKey, comment); return { updated: true, ... }
AddCommentOk ==
  /\ pc = "addComment"
  /\ calls' = Append(calls, Call("addComment", storyKey, "", TRUE))
  /\ ret' = [ ok |-> TRUE, pending |-> FALSE, updated |-> TRUE,
              oldStatus |-> analysis.currentStatus,
              newStatus |-> decision.targetStatus,
              reason |-> decision.reason ]
  /\ pc' = "return"
  /\ UNCHANGED << remoteVars, op, failures, changes, batchVars, storyKey,
                  story, relatedTaskKeys, relatedTasks, analysis, decision, result >>
  /\ UNCHANGED otherVars

AddCommentFail ==
  /\ pc = "addComment"
  /\ CanFail
  /\ failures' = failures + 1
  /\ calls' = Append(calls, Call("addComment", storyKey, "", FALSE))
  /\ UpdateThrows(ApiError("addComment"))
  /\ UNCHANGED << remoteVars, op, changes, batchVars, storyKey,
                  story, relatedTaskKeys, relatedTasks, analysis, decision, result >>
  /\ UNCHANGED otherVars

\* updateStoryStatusBasedOnTasks called directly: its outcome is the call's
ReturnUpdate ==
  /\ pc = "return"
  /\ op = "updateStoryStatusBasedOnTasks"
  /\ result' = ret
  /\ pc' = "done"
  /\ UNCHANGED << remoteVars, op, calls, failures, changes, batchVars, storyKey, storyVars >>
  /\ UNCHANGED otherVars

(* ---------------------- updateAllStoryStatuses ------------------------- *)

\* after the loop: return { storiesChecked, storiesUpdated, updates }
BatchResult(n, upd) ==
  [ ok |-> TRUE, pending |-> FALSE, storiesChecked |-> Len(stories'),
    storiesUpdated |-> n, updates |-> upd ]

\* const epicIssues = await this.getEpicIssues(epicKey); filter; loop entry
GetEpicIssuesOk ==
  /\ pc = "getEpicIssues"
  /\ stories' = storiesOf(topo.epicIssues)
  /\ updates' = << >>
  /\ storiesUpdated' = 0
  /\ attempts' = << >>
  /\ calls' = Append(calls, Call("getEpicIssues", EpicKey, "", TRUE))
  /\ IF stories' = << >>
     THEN /\ i' = 0
          /\ storyKey' = storyKey
          /\ result' = BatchResult(0, << >>)
          /\ pc' = "done"
     ELSE /\ i' = 1
          /\ storyKey' = stories'[1]
          /\ result' = result
          /\ pc' = "getTicket"
  /\ UNCHANGED << remoteVars, op, failures, changes, storyVars >>
  /\ UNCHANGED otherVars

\* the outer catch rethrows
GetEpicIssuesFail ==
  /\ pc = "getEpicIssues"
  /\ CanFail
  /\ failures' = failures + 1
  /\ calls' = Append(calls, Call("getEpicIssues", EpicKey, "", FALSE))
  /\ result' = Thrown("Failed to update all story statuses: Error: "
                        \o ApiError("getEpicIssues"))
  /\ pc' = "done"
  /\ UNCHANGED << remoteVars, op, changes, batchVars, storyKey, storyVars >>
  /\ UNCHANGED otherVars

\* the loop without its try/catch: a story that throws ends the batch
ReturnToLoop_Rethrow ==
  /\ pc = "return"
  /\ op = "updateAllStoryStatuses"
  /\ LET pushed == ret.ok /\ ret.updated IN
       /\ updates' = IF pushed
                     THEN Append(updates, [ storyKey  |-> storyKey,
                                            oldStatus |-> ret.oldStatus,
                                            newStatus |-> ret.newStatus,
                                            reason    |-> ret.reason ])
                     ELSE updates
       /\ storiesUpdated' = IF pushed THEN storiesUpdated + 1 ELSE storiesUpdated
  /\ attempts' = Append(attempts, [ storyKey |-> storyKey, analysis |-> analysis,
                                    decision |-> decision, ret |-> ret ])
  /\ stories' = stories
  /\ IF ~ret.ok
     THEN /\ i' = i
          /\ storyKey' = storyKey
          /\ result' = Thrown("Failed to update all story statuses: Error: " \o ret.error)
          /\ pc' = "done"
     ELSE IF i < Len(stories)
     THEN /\ i' = i + 1
          /\ storyKey' = stories[i + 1]
          /\ result' = result
          /\ pc' = "getTicket"
     ELSE /\ i' = i
          /\ storyKey' = storyKey
          /\ result' = BatchResult(storiesUpdated', updates')
          /\ pc' = "done"
  /\ FreshStory
  /\ UNCHANGED << remoteVars, op, calls, failures, changes >>
  /\ UNCHANGED otherVars

\* the loop that tries a story that threw a second time
ReturnToLoop_Retry ==
  /\ pc = "return"
  /\ op = "updateAllStoryStatuses"
  /\ LET pushed == ret.ok /\ ret.updated IN
       /\ updates' = IF pushed
                     THEN Append(updates, [ storyKey  |-> storyKey,
                                            oldStatus |-> ret.oldStatus,
                                            newStatus |-> ret.newStatus,
                                            reason    |-> ret.reason ])
                     ELSE updates
       /\ storiesUpdated' = IF pushed THEN storiesUpdated + 1 ELSE storiesUpdated
  /\ stories' = stories
  /\ IF ~ret.ok /\ Len(attempts) < i
     THEN /\ attempts' = attempts
          /\ i' = i
          /\ storyKey' = storyKey
          /\ result' = result
          /\ pc' = "getTicket"
     ELSE /\ attempts' = Append(attempts, [ storyKey |-> storyKey, analysis |-> analysis,
                                            decision |-> decision, ret |-> ret ])
          /\ IF i < Len(stories)
             THEN /\ i' = i + 1
                  /\ storyKey' = stories[i + 1]
                  /\ result' = result
                  /\ pc' = "getTicket"
             ELSE /\ i' = i
                  /\ storyKey' = storyKey
                  /\ result' = BatchResult(storiesUpdated', updates')
                  /\ pc' = "done"
  /\ FreshStory
  /\ UNCHANGED << remoteVars, op, calls, failures, changes >>
  /\ UNCHANGED otherVars

\* one iteration of the for loop ends: push the update when result.updated,
\* swallow a throw, then go on with the next story or return
ReturnToLoop ==
  /\ pc = "return"
  /\ op = "updateAllStoryStatuses"
  /\ LET pushed == ret.ok /\ ret.updated IN
       /\ updates' = IF pushed
                     THEN Append(updates, [ storyKey  |-> storyKey,
                                            oldStatus |-> ret.oldStatus,
                                            newStatus |-> ret.newStatus,
                                            reason    |-> ret.reason ])
                     ELSE updates
       /\ storiesUpdated' = IF pushed THEN storiesUpdated + 1 ELSE storiesUpdated
  /\ attempts' = Append(attempts, [ storyKey |-> storyKey, analysis |-> analysis,
                                    decision |-> decision, ret |-> ret ])
  /\ stories' = stories
  /\ IF i < Len(stories)
     THEN /\ i' = i + 1
          /\ storyKey' = stories[i + 1]
          /\ result' = result
          /\ pc' = "getTicket"
     ELSE /\ i' = i
          /\ storyKey' = storyKey
          /\ result' = BatchResult(storiesUpdated', updates')
          /\ pc' = "done"
  /\ FreshStory
  /\ UNCHANGED << remoteVars, op, calls, failures, changes >>
  /\ UNCHANGED otherVars

(* --------------------------- specification ----------------------------- *)

\* the steps of the service
Run ==
  \/ CallAnalyzeStoryStatus
  \/ CallUpdateStoryStatusBasedOnTasks
  \/ CallUpdateAllStoryStatuses
  \/ Respond
  \/ GetStoryOk
  \/ GetStoryFail
  \/ GetIssueLinksOk
  \/ GetIssueLinksFail
  \/ GetTaskOk
  \/ GetTaskFail
  \/ Analyze
  \/ Decide
  \/ UpdateTicketStatusOk
  \/ UpdateTicketStatusFail
  \/ AddCommentOk
  \/ AddCommentFail
  \/ ReturnUpdate
  \/ GetEpicIssuesOk
  \/ GetEpicIssuesFail
  \/ ReturnToLoop

Next == TaskStatusChange \/ Run

\* the service against a remote whose task statuses other users change
Spec == Init /\ [][Next]_vars

\* the service alone on the epic of the two-story scenario
SpecScenario == InitScenario /\ [][Run]_vars

(* ------------------------ vocabulary of the claims --------------------- *)

Recognised == {"Done", "In Progress", "To Do"}

Indices(sq) == 1 .. Len(sq)

\* the calls of the given kinds made on issue k during the running call
CallsOn(k, kinds) == { n \in Indices(calls) : calls[n].key = k /\ calls[n].op \in kinds }

Mutating == {"updateTicketStatus", "addComment"}

\* a per-story call (direct or inside the batch) has returned a value
Returned == pc = "return" /\ ret.ok

\* the row of the decision table an analysis selects: 1, 2 or 3
Row(a) ==
  IF a.shouldBeDone /\ a.currentStatus # "Done" THEN 1
  ELSE IF a.shouldBeInProgress /\ a.currentStatus = "To Do" THEN 2
  ELSE 3

(* ------------------------------ C1 ------------------------------------- *)

\* C1: in every analysis, total is the number of fetched tasks, done +
\* inProgress + toDo <= total, and the difference is exactly the number of
\* fetched tasks whose status is none of Done, In Progress, To Do.
C1_SummaryBuckets ==
  analysis.defined =>
    LET sum == analysis.tasksSummary
        ts  == analysis.relatedTasks
        unrecognised == { n \in Indices(ts) : ts[n].status \notin Recognised }
    IN  /\ ts = relatedTasks
        /\ sum.total = Len(ts)
        /\ sum.done + sum.inProgress + sum.toDo <= sum.total
        /\ sum.total - (sum.done + sum.inProgress + sum.toDo) = Cardinality(unrecognised)

\* an analysis over two fetched tasks, one of them in an unrecognised status
C1_Witness ==
  /\ analysis.defined
  /\ analysis.tasksSummary.total = 2
  /\ analysis.tasksSummary.done + analysis.tasksSummary.inProgress
       + analysis.tasksSummary.toDo = 1
  /\ \E n \in Indices(analysis.relatedTasks) : analysis.relatedTasks[n].status = "Blocked"

(* ------------------------------ C2 ------------------------------------- *)

\* C2: shouldBeDone and shouldBeInProgress are never both true, and both
\* are false when no task was fetched.
C2_Exclusive ==
  analysis.defined =>
    /\ ~(analysis.shouldBeDone /\ analysis.shouldBeInProgress)
    /\ analysis.tasksSummary.total = 0 =>
         (~analysis.shouldBeDone /\ ~analysis.shouldBeInProgress)

\* an analysis of a story whose links name a task that could not be fetched
C2_Witness ==
  /\ analysis.defined
  /\ analysis.tasksSummary.total = 0
  /\ storyKey = "S-2"
  /\ \E n \in Indices(calls) : ~calls[n].ok /\ calls[n].key = "T-3"

(* ------------------------------ C3 ------------------------------------- *)

\* C3: shouldBeDone holds exactly when at least one task was fetched and
\* every fetched task is Done; shouldBeInProgress exactly when that is not
\* so and some fetched task is Done or In Progress; both agree with the
\* counts of the returned tasksSummary.
C3_Flags ==
  analysis.defined =>
    LET ts  == analysis.relatedTasks
        sum == analysis.tasksSummary
        allDone == ts # << >> /\ \A n \in Indices(ts) : ts[n].status = "Done"
        someStarted == \E n \in Indices(ts) : ts[n].status \in {"Done", "In Progress"}
    IN  /\ analysis.shouldBeDone = allDone
        /\ analysis.shouldBeInProgress = (~allDone /\ someStarted)
        /\ analysis.shouldBeDone = (sum.total > 0 /\ sum.done = sum.total)
        /\ analysis.shouldBeInProgress =
             (~analysis.shouldBeDone /\ (sum.inProgress > 0 \/ sum.done > 0))

\* one fetched task In Progress and the other To Do: in progress, not done
C3_Witness ==
  /\ analysis.defined
  /\ analysis.tasksSummary = [total |-> 2, done |-> 0, inProgress |-> 1, toDo |-> 1]
  /\ analysis.shouldBeInProgress
  /\ ~analysis.shouldBeDone

(* ------------------------------ C4 ------------------------------------- *)

\* C4: the transition id passed to updateTicketStatus and the newStatus and
\* reason returned are those of the first matching row of the table
\* (1) shouldBeDone, status # Done: '31', Done, 'All <total> related tasks
\* are completed'; (2) shouldBeInProgress, status = To Do: '21', In
\* Progress, '<inProgress+done> of <total> tasks are started/completed';
\* (3) otherwise no transition.
C4_DecisionTable ==
  analysis.defined =>
    LET a   == analysis
        sum == analysis.tasksSummary
        id  == IF Row(a) = 1 THEN "31" ELSE "21"
    IN  /\ pc = "updateTicketStatus" => (Row(a) # 3 /\ decision.transitionId = id)
        /\ \A n \in CallsOn(storyKey, {"updateTicketStatus"}) :
             Row(a) # 3 /\ calls[n].id = id
        /\ Returned =>
             /\ ret.oldStatus = a.currentStatus
             /\ Row(a) = 1 =>
                  /\ ret.updated
                  /\ ret.newStatus = "Done"
                  /\ ret.reason = "All " \o ToString(sum.total) \o " related tasks are completed"
             /\ Row(a) = 2 =>
                  /\ ret.updated
                  /\ ret.newStatus = "In Progress"
                  /\ ret.reason = ToString(sum.inProgress + sum.done) \o " of "
                                    \o ToString(sum.total) \o " tasks are started/completed"
             /\ Row(a) = 3 => ~ret.updated

\* the second row has fired: '21' was passed and In Progress is returned
C4_Witness ==
  /\ Returned
  /\ analysis.defined
  /\ Row(analysis) = 2
  /\ ret.newStatus = "In Progress"
  /\ ret.reason = "1 of 2 tasks are started/completed"
  /\ \E n \in CallsOn(storyKey, {"updateTicketStatus"}) : calls[n].id = "21" /\ calls[n].ok

(* ------------------------------ C5 ------------------------------------- *)

\* C5: a story read as Done gets no updateTicketStatus and no addComment
\* call, whatever its tasks' statuses, and the call returns updated = false.
C5_DoneUntouched ==
  (analysis.defined /\ analysis.currentStatus = "Done") =>
    /\ pc \notin Mutating
    /\ CallsOn(storyKey, Mutating) = {}
    /\ pc = "return" => (ret.ok /\ ~ret.updated)
    /\ (pc = "done" /\ op = "updateStoryStatusBasedOnTasks") =>
         (result.ok /\ ~result.updated)

\* a Done story whose tasks are only partly finished has been decided on
C5_Witness ==
  /\ Returned
  /\ analysis.defined
  /\ analysis.currentStatus = "Done"
  /\ analysis.shouldBeInProgress
  /\ ~ret.updated

(* ------------------------------ C6 ------------------------------------- *)

\* C6: no step moves an issue from In Progress to To Do, or from Done to
\* In Progress or To Do, however the tasks' statuses change between and
\* during the runs.
C6_ForwardOnly ==
  [][ \A k \in Keys(topo) :
        /\ ~(status[k] = "In Progress" /\ status'[k] = "To Do")
        /\ ~(status[k] = "Done" /\ status'[k] \in {"In Progress", "To Do"}) ]_vars

\* a run has left alone an In Progress story all of whose tasks are To Do
C6_Witness ==
  /\ Returned
  /\ analysis.defined
  /\ analysis.currentStatus = "In Progress"
  /\ analysis.tasksSummary.total > 0
  /\ analysis.tasksSummary.toDo = analysis.tasksSummary.total
  /\ ~ret.updated
  /\ status[storyKey] = "In Progress"

(* ------------------------------ C7 ------------------------------------- *)

\* C7: when no task was fetched, or no fetched task is Done or In Progress
\* (neither shouldBeDone nor shouldBeInProgress), the story gets no
\* updateTicketStatus and no addComment call, its remote status stays what
\* was read, and the call returns updated = false with newStatus =
\* oldStatus = that status.
C7_NothingToDo ==
  LET ts == analysis.relatedTasks
      idle == \A n \in Indices(ts) : ts[n].status \notin {"Done", "In Progress"}
  IN  (analysis.defined /\ (idle \/ (~analysis.shouldBeDone /\ ~analysis.shouldBeInProgress))) =>
        /\ pc \notin Mutating
        /\ CallsOn(storyKey, Mutating) = {}
        /\ status[storyKey] = analysis.currentStatus
        /\ pc = "return" =>
             /\ ret.ok
             /\ ~ret.updated
             /\ ret.oldStatus = analysis.currentStatus
             /\ ret.newStatus = analysis.currentStatus
        /\ (pc = "done" /\ op = "updateStoryStatusBasedOnTasks") =>
             (result.ok /\ ~result.updated /\ result.newStatus = result.oldStatus)

\* a To Do story whose two tasks are both To Do has been decided on
C7_Witness ==
  /\ Returned
  /\ analysis.defined
  /\ analysis.currentStatus = "To Do"
  /\ analysis.tasksSummary = [total |-> 2, done |-> 0, inProgress |-> 0, toDo |-> 2]
  /\ ~ret.updated
  /\ ret.reason = "No status change needed"

(* ------------------------------ C8 ------------------------------------- *)

\* the epic's issues of type Story, by position in the epic's issue list
StoryPositions == { n \in Indices(topo.epicIssues) : topo.epicIssues[n].type = "Story" }

\* an external call made on story k itself failed during the running call
StoryFailed(k) == \E n \in Indices(calls) : calls[n].key = k /\ ~calls[n].ok

\* the batch has returned or thrown after its getEpicIssues succeeded
BatchOver ==
  /\ op = "updateAllStoryStatuses"
  /\ pc = "done"
  /\ calls # << >>
  /\ calls[1].ok

\* C8: a story that fails at one of its own external calls does not fail
\* the batch, and every story none of whose own calls failed (the later
\* ones included) is analysed, transitioned when the decision table says
\* so, and then listed in updates.
C8_FailureIsolated ==
  BatchOver =>
    /\ result.ok
    /\ Len(attempts) = Cardinality(StoryPositions)
    /\ \A j \in Indices(attempts) :
         LET at == attempts[j] IN
           /\ topo.epicIssues[CHOOSE n \in StoryPositions :
                 Cardinality({m \in StoryPositions : m <= n}) = j].key = at.storyKey
           /\ ~StoryFailed(at.storyKey) =>
                /\ at.ret.ok
                /\ at.analysis.defined
                /\ Row(at.analysis) # 3 =>
                     /\ at.ret.updated
                     /\ \E n \in CallsOn(at.storyKey, {"updateTicketStatus"}) :
                          /\ calls[n].ok
                          /\ calls[n].id = (IF Row(at.analysis) = 1 THEN "31" ELSE "21")
                     /\ \E n \in Indices(result.updates) :
                          result.updates[n].storyKey = at.storyKey
                /\ Row(at.analysis) = 3 => ~at.ret.updated

\* the first story failed and the second was transitioned and reported
C8_Witness ==
  /\ BatchOver
  /\ Len(attempts) = 2
  /\ ~attempts[1].ret.ok
  /\ attempts[2].ret.ok
  /\ attempts[2].ret.updated
  /\ result.ok
  /\ result.storiesUpdated = 1
  /\ result.updates[1].storyKey = "S-2"

(* ------------------------------ C9 ------------------------------------- *)

\* C9: a returned batch reports storiesChecked = the number of the epic's
\* issues of type Story (failed ones included), storiesUpdated = the
\* length of updates <= storiesChecked, and every entry of updates names a
\* distinct story of the epic with the oldStatus, newStatus and reason
\* that updateStoryStatusBasedOnTasks returned for it.
C9_BatchReport ==
  (BatchOver /\ result.ok) =>
    /\ result.storiesChecked = Cardinality(StoryPositions)
    /\ result.storiesUpdated = Len(result.updates)
    /\ result.storiesUpdated <= result.storiesChecked
    /\ \A n \in Indices(result.updates) :
         LET u == result.updates[n] IN
           /\ \E m \in StoryPositions : topo.epicIssues[m].key = u.storyKey
           /\ \A m \in Indices(result.updates) :
                result.updates[m].storyKey = u.storyKey => m = n
           /\ \E j \in Indices(attempts) :
                /\ attempts[j].storyKey = u.storyKey
                /\ attempts[j].ret.ok
                /\ attempts[j].ret.updated
                /\ u.oldStatus = attempts[j].ret.oldStatus
                /\ u.newStatus = attempts[j].ret.newStatus
                /\ u.reason = attempts[j].ret.reason

\* a batch over two stories, one failed, the other updated
C9_Witness ==
  /\ BatchOver
  /\ result.ok
  /\ result.storiesChecked = 2
  /\ result.storiesUpdated = 1
  /\ \E j \in Indices(attempts) : ~attempts[j].ret.ok
  /\ result.updates[1].oldStatus = "To Do"
  /\ result.updates[1].newStatus = "Done"

(* ------------------------------ C10 ------------------------------------ *)

\* the batch ran the scenario: no call failed, both stories were read as
\* To Do, S-1 with three tasks Done, S-2 with one task Done and one To Do
ScenarioRun ==
  /\ BatchOver
  /\ \A n \in Indices(calls) : calls[n].ok
  /\ Len(attempts) = 2
  /\ attempts[1].storyKey = "S-1"
  /\ attempts[1].analysis.currentStatus = "To Do"
  /\ attempts[1].analysis.tasksSummary = [total |-> 3, done |-> 3, inProgress |-> 0, toDo |-> 0]
  /\ attempts[2].storyKey = "S-2"
  /\ attempts[2].analysis.currentStatus = "To Do"
  /\ attempts[2].analysis.tasksSummary = [total |-> 2, done |-> 1, inProgress |-> 0, toDo |-> 1]

\* C10 as stated: the scenario reports storiesChecked = 2 and storiesUpdated
\* = 1, the single update being S-1 moving to Done with a reason that
\* mentions 3 tasks.
C10_AsStated ==
  ScenarioRun =>
    /\ result.storiesChecked = 2
    /\ result.storiesUpdated = 1
    /\ Len(result.updates) = 1
    /\ result.updates[1].storyKey = "S-1"
    /\ result.updates[1].newStatus = "Done"
    /\ result.updates[1].reason = "All 3 related tasks are completed"

\* C10 amended: the scenario reports storiesChecked = 2 and storiesUpdated
\* = 2: S-1 moves to Done with the reason 'All 3 related tasks are
\* completed', then S-2 moves to In Progress with the reason '1 of 2 tasks
\* are started/completed'.
C10_Scenario ==
  ScenarioRun =>
    /\ result.ok
    /\ result.storiesChecked = 2
    /\ result.storiesUpdated = 2
    /\ result.updates =
         << [ storyKey |-> "S-1", oldStatus |-> "To Do", newStatus |-> "Done",
              reason |-> "All 3 related tasks are completed" ],
            [ storyKey |-> "S-2", oldStatus |-> "To Do", newStatus |-> "In Progress",
              reason |-> "1 of 2 tasks are started/completed" ] >>
    /\ status["S-1"] = "Done"
    /\ status["S-2"] = "In Progress"

\* the scenario has run to its end
C10_Witness ==
  /\ ScenarioRun
  /\ result.ok
  /\ result.storiesUpdated = 2

(* ---------------------- validateProjectStructure ----------------------- *)

MaxChildren == 2

ChildTypes == {"Story", "Task", "Bug"}

RootTypes == {"Epic", "Story", "Task"}

\* issuelinks of one child, as getIssueLinks returns them
ChildLinks ==
  { << >>,
    << Link(Issue("T-1", "Task"), None) >>,
    << Link(None, Issue("T-2", "Task")) >>,
    << Link(Issue("B-7", "Bug"), None) >>,
    << Link(Issue("B-7", "Bug"), None),
       Link(Issue("S-9", "Story"), Issue("T-3", "Task")) >> }

ChildKey(n) == "C-" \o ToString(n)

\* the remote project: the root's type, the search result for the root and
\* the issuelinks of every child
Project(rootType, types, links) ==
  [ root       |-> rootType,
    epicIssues |-> [ n \in DOMAIN types |-> Issue(ChildKey(n), types[n]) ],
    links      |-> [ k \in { ChildKey(n) : n \in DOMAIN types } |->
                       links[CHOOSE n \in DOMAIN types : ChildKey(n) = k] ],
    tasks      |-> {} ]

LegacyWarning == "Running in legacy JIRA Server mode - some features may be limited"

NotAnEpic(epicKey, type) == epicKey \o " is not an Epic (type: " \o type \o ")"

NoChildren(epicKey) == "Epic " \o epicKey \o " has no linked stories or tasks"

NoLinkedTasks(key) == "Story " \o key \o " has no linked tasks"

\* a filter that looks at the inward end of a link only
taskLinks_InwardOnly(links) ==
  SelectSeq(links, LAMBDA link : link.inwardIssue.type = "Task")

taskLinks(links) ==
  SelectSeq(links, LAMBDA link : \/ link.inwardIssue.type = "Task"
                                 \/ link.outwardIssue.type = "Task")

\* a check that reports nothing for an epic without children
emptyEpicWarnings_Silent(epicKey, epicIssues) == << >>

emptyEpicWarnings(epicKey, epicIssues) ==
  IF Len(epicIssues) = 0 THEN << NoChildren(epicKey) >> ELSE << >>

\* a verdict that warnings spoil too
validationResult_Strict(v) ==
  [ isValid  |-> (Len(v.issues) = 0 /\ Len(v.warnings) = 0),
    issues   |-> v.issues,
    warnings |-> v.warnings ]

validationResult(v) ==
  [ isValid  |-> (Len(v.issues) = 0),
    issues   |-> v.issues,
    warnings |-> v.warnings ]

\* the loop's continue: legacy mode and no known issue-link support
skipLinkValidation ==
  isLegacyMode /\ ~(serverCapabilities.known /\ serverCapabilities.hasIssueLinks)

ValidateThrows(cause) ==
  Thrown("Failed to validate project structure: Error: " \o cause)

\* entry: initialize() has run, the two lists are created and the legacy
\* warning is pushed; the method waits for getTicket(epicKey)
CallValidateProjectStructure ==
  /\ pc = "idle"
  /\ op' = "validateProjectStructure"
  /\ validation' = [ NoValidation EXCEPT
                       !.warnings = IF isLegacyMode THEN << LegacyWarning >> ELSE << >> ]
  /\ pc' = "validateGetTicket"
  /\ UNCHANGED << remoteVars, calls, failures, changes, batchVars, storyKey,
                  storyVars, result, formatVars, isLegacyMode, serverCapabilities >>
  /\ UNCHANGED laterVars

\* the discovery initialize() started without awaiting it ends while the
\* method waits: serverCapabilities is set, with or without link support
DetectServerCapabilities ==
  /\ pc \in {"validateGetTicket", "validateGetEpicIssues"}
  /\ isLegacyMode
  /\ ~serverCapabilities.known
  /\ \E b \in BOOLEAN : serverCapabilities' = [ known |-> TRUE, hasIssueLinks |-> b ]
  /\ UNCHANGED << remoteVars, pc, op, calls, failures, changes, batchVars, storyKey,
                  storyVars, result, validation, formatVars, isLegacyMode >>
  /\ fieldMappings' = DefaultMappings
  /\ discovery' = "done"
  /\ UNCHANGED << previous, jiraService, env, initialized, clients, server, issuePayload,
                  response, setupVars, hierarchyVars >>

ValidateGetTicketOk ==
  /\ pc = "validateGetTicket"
  /\ calls' = Append(calls, Call("getTicket", EpicKey, "", TRUE))
  /\ validation' = [ validation EXCEPT
                       !.issues = IF topo.root # "Epic"
                                  THEN Append(@, NotAnEpic(EpicKey, topo.root))
                                  ELSE @ ]
  /\ pc' = "validateGetEpicIssues"
  /\ UNCHANGED << remoteVars, op, failures, changes, batchVars, storyKey,
                  storyVars, result, formatVars, isLegacyMode, serverCapabilities >>
  /\ UNCHANGED laterVars

ValidateGetTicketFail ==
  /\ pc = "validateGetTicket"
  /\ CanFail
  /\ failures' = failures + 1
  /\ calls' = Append(calls, Call("getTicket", EpicKey, "", FALSE))
  /\ result' = ValidateThrows(ApiError("getTicket"))
  /\ pc' = "done"
  /\ UNCHANGED << remoteVars, op, changes, batchVars, storyKey, storyVars >>
  /\ UNCHANGED otherVars

\* the search returns; the empty-epic warning; then the loop runs without
\* waiting over every child it skips, up to its first getIssueLinks or to
\* the return
ValidateGetEpicIssuesOk ==
  /\ pc = "validateGetEpicIssues"
  /\ calls' = Append(calls, Call("getEpicIssues", EpicKey, "", TRUE))
  /\ LET warned == [ validation EXCEPT
                       !.epicIssues = topo.epicIssues,
                       !.warnings = @ \o emptyEpicWarnings(EpicKey, topo.epicIssues) ]
     IN  IF Len(topo.epicIssues) = 0 \/ skipLinkValidation
         THEN /\ validation' = warned
              /\ result' = [ ok |-> TRUE, pending |-> FALSE,
                             value |-> validationResult(warned) ]
              /\ pc' = "done"
         ELSE /\ validation' = [ warned EXCEPT !.at = 1 ]
              /\ result' = result
              /\ pc' = "validateGetIssueLinks"
  /\ UNCHANGED << remoteVars, op, failures, changes, batchVars, storyKey,
                  storyVars, formatVars, isLegacyMode, serverCapabilities >>
  /\ UNCHANGED laterVars

ValidateGetEpicIssuesFail ==
  /\ pc = "validateGetEpicIssues"
  /\ CanFail
  /\ failures' = failures + 1
  /\ calls' = Append(calls, Call("getEpicIssues", EpicKey, "", FALSE))
  /\ result' = ValidateThrows(ApiError("getEpicIssues"))
  /\ pc' = "done"
  /\ UNCHANGED << remoteVars, op, changes, batchVars, storyKey, storyVars >>
  /\ UNCHANGED otherVars

\* the links of the child at hand arrive: a Story without a Task link is
\* warned about; then the next child, or the return
ValidateGetIssueLinksOk ==
  /\ pc = "validateGetIssueLinks"
  /\ LET issue  == validation.epicIssues[validation.at]
         links  == topo.links[issue.key]
         warned == [ validation EXCEPT
                       !.warnings = IF issue.type = "Story" /\ Len(taskLinks(links)) = 0
                                    THEN Append(@, NoLinkedTasks(issue.key))
                                    ELSE @ ]
     IN  /\ calls' = Append(calls, Call("getIssueLinks", issue.key, "", TRUE))
         /\ IF validation.at < Len(validation.epicIssues)
            THEN /\ validation' = [ warned EXCEPT !.at = @ + 1 ]
                 /\ result' = result
                 /\ pc' = "validateGetIssueLinks"
            ELSE /\ validation' = warned
                 /\ result' = [ ok |-> TRUE, pending |-> FALSE,
                                value |-> validationResult(warned) ]
                 /\ pc' = "done"
  /\ UNCHANGED << remoteVars, op, failures, changes, batchVars, storyKey,
                  storyVars, formatVars, isLegacyMode, serverCapabilities >>
  /\ UNCHANGED laterVars

ValidateGetIssueLinksFail ==
  /\ pc = "validateGetIssueLinks"
  /\ CanFail
  /\ failures' = failures + 1
  /\ calls' = Append(calls, Call("getIssueLinks",
                                 validation.epicIssues[validation.at].key, "", FALSE))
  /\ result' = ValidateThrows(ApiError("getIssueLinks"))
  /\ pc' = "done"
  /\ UNCHANGED << remoteVars, op, changes, batchVars, storyKey, storyVars >>
  /\ UNCHANGED otherVars

\* an initialised service, on Cloud or on a legacy server whose discovery is
\* pending or over, in front of a project of at most MaxChildren children
InitValidate ==
  /\ \E rootType \in RootTypes, m \in 0 .. MaxChildren :
       \E types \in [ 1 .. m -> ChildTypes ], links \in [ 1 .. m -> ChildLinks ] :
         topo = Project(rootType, types, links)
  /\ status = [ k \in {EpicKey} |-> "To Do" ]
  /\ InitLocals
  /\ isLegacyMode \in BOOLEAN
  /\ serverCapabilities \in
       {NoCapabilities} \cup
       (IF isLegacyMode
        THEN { [ known |-> TRUE, hasIssueLinks |-> b ] : b \in BOOLEAN }
        ELSE {})
  /\ ServiceInUse

NextValidate ==
  \/ CallValidateProjectStructure
  \/ DetectServerCapabilities
  \/ ValidateGetTicketOk
  \/ ValidateGetTicketFail
  \/ ValidateGetEpicIssuesOk
  \/ ValidateGetEpicIssuesFail
  \/ ValidateGetIssueLinksOk
  \/ ValidateGetIssueLinksFail
  \/ Respond

SpecValidate == InitValidate /\ [][NextValidate]_vars

(* --------------------------- formatJiraText ---------------------------- *)

\* a text is a sequence of characters, each a string of length one

\* \w of the regular expressions, over the characters that occur
WordChars ==
  {"a", "b", "c", "d", "h", "i", "j", "l", "s", "u", "_", "1", "2", "3"}

\* the pattern stands in t at position p
startsAt(t, p, pattern) ==
  /\ p + Len(pattern) - 1 <= Len(t)
  /\ \A n \in 1 .. Len(pattern) : t[p + n - 1] = pattern[n]

\* ^ under the m flag
atLineStart(t, p) == p = 1 \/ t[p - 1] = "\n"

\* the first position from p on that holds one of the characters, or
\* Len(t) + 1
RECURSIVE firstOf(_, _, _)
firstOf(t, p, stops) ==
  IF p > Len(t) \/ t[p] \in stops THEN p ELSE firstOf(t, p + 1, stops)

\* the first position from p on where the pattern stands, or 0
RECURSIVE firstAt(_, _, _)
firstAt(t, p, pattern) ==
  IF p + Len(pattern) - 1 > Len(t) THEN 0
  ELSE IF startsAt(t, p, pattern) THEN p
  ELSE firstAt(t, p + 1, pattern)

slice(t, from, to) == SubSeq(t, from, to)

\* replace(/^<prefix>(.+)$/gm, '<replacement>$1'): the prefix at the start
\* of a line with at least one more character on that line
RECURSIVE replaceLinePrefix(_, _, _, _)
replaceLinePrefix(t, p, prefix, replacement) ==
  IF p > Len(t) THEN << >>
  ELSE IF /\ atLineStart(t, p)
          /\ startsAt(t, p, prefix)
          /\ p + Len(prefix) <= Len(t)
          /\ t[p + Len(prefix)] # "\n"
       THEN replacement \o replaceLinePrefix(t, p + Len(prefix), prefix, replacement)
       ELSE << t[p] >> \o replaceLinePrefix(t, p + 1, prefix, replacement)

Hashes(n) == [ k \in 1 .. n |-> "#" ]

\* a replacement that takes one '#' off instead of writing 'hN. '
headerText_Demote(n) == IF n = 1 THEN << "h", "1", ".", " " >> ELSE Hashes(n - 1) \o << " " >>

\* 'h1. ', 'h2. ', 'h3. '
headerText(n) == << "h", ToString(n), ".", " " >>

\* the earlier copy's /^<prefix>(.*$)/gm, which accepts an empty rest too
RECURSIVE replaceLinePrefix_AnyRest(_, _, _, _)
replaceLinePrefix_AnyRest(t, p, prefix, replacement) ==
  IF p > Len(t) THEN << >>
  ELSE IF atLineStart(t, p) /\ startsAt(t, p, prefix)
       THEN replacement \o replaceLinePrefix_AnyRest(t, p + Len(prefix), prefix, replacement)
       ELSE << t[p] >> \o replaceLinePrefix_AnyRest(t, p + 1, prefix, replacement)

headerRule_AnyRest(t, n) ==
  replaceLinePrefix_AnyRest(t, 1, Hashes(n) \o << " " >>, headerText(n))

headerRule(t, n) == replaceLinePrefix(t, 1, Hashes(n) \o << " " >>, headerText(n))

listRule(t) == replaceLinePrefix(t, 1, << "-", " " >>, << "*", " " >>)

\* the end of the longest '(.+)\*\*' from q on: the last '**' before the
\* newline or the end of the text, or 0
RECURSIVE closeBold_Greedy(_, _)
closeBold_Greedy(t, q) ==
  IF q + 1 > Len(t) \/ t[q - 1] = "\n" THEN 0
  ELSE LET later == closeBold_Greedy(t, q + 1)
       IN  IF later # 0 THEN later
           ELSE IF t[q] = "*" /\ t[q + 1] = "*" THEN q ELSE 0

\* the end of the shortest '(.+?)\*\*' from q on: the position of the
\* closing '**', or 0 when a newline or the end of the text comes first
RECURSIVE closeBold(_, _)
closeBold(t, q) ==
  IF q + 1 > Len(t) \/ t[q - 1] = "\n" THEN 0
  ELSE IF t[q] = "*" /\ t[q + 1] = "*" THEN q
  ELSE closeBold(t, q + 1)

\* replace(/\*\*(.+)\*\*/g, '*$1*'): the longest span
RECURSIVE boldRule_Greedy(_, _)
boldRule_Greedy(t, p) ==
  IF p > Len(t) THEN << >>
  ELSE LET q == IF startsAt(t, p, << "*", "*" >>) /\ p + 2 <= Len(t)
                THEN closeBold_Greedy(t, p + 3) ELSE 0
       IN  IF q # 0
           THEN << "*" >> \o slice(t, p + 2, q - 1) \o << "*" >> \o boldRule_Greedy(t, q + 2)
           ELSE << t[p] >> \o boldRule_Greedy(t, p + 1)

\* replace(/\*\*(.+?)\*\*/g, '*$1*')
RECURSIVE boldRule(_, _)
boldRule(t, p) ==
  IF p > Len(t) THEN << >>
  ELSE LET q == IF startsAt(t, p, << "*", "*" >>) /\ p + 2 <= Len(t)
                THEN closeBold(t, p + 3) ELSE 0
       IN  IF q # 0
           THEN << "*" >> \o slice(t, p + 2, q - 1) \o << "*" >> \o boldRule(t, q + 2)
           ELSE << t[p] >> \o boldRule(t, p + 1)

\* the earlier copy's replace(/(?<!\*)\*([^*\n]+)\*(?!\*)/g, '_$1_')
RECURSIVE italicRule(_, _)
italicRule(t, p) ==
  IF p > Len(t) THEN << >>
  ELSE LET q == firstOf(t, p + 1, {"*", "\n"})
           hit == /\ t[p] = "*"
                  /\ (p = 1 \/ t[p - 1] # "*")
                  /\ q > p + 1
                  /\ q <= Len(t)
                  /\ t[q] = "*"
                  /\ (q = Len(t) \/ t[q + 1] # "*")
       IN  IF hit
           THEN << "_" >> \o slice(t, p + 1, q - 1) \o << "_" >> \o italicRule(t, q + 1)
           ELSE << t[p] >> \o italicRule(t, p + 1)

\* the character U+0060, which a string of this language cannot hold
Backtick == "U+0060"

Fence == << Backtick, Backtick, Backtick >>

Code == << "{", "c", "o", "d", "e", "}" >>

\* replace(/```[\w]*\n?([\s\S]*?)\n?```/g, '{code}$1{code}')
RECURSIVE codeBlockRule(_, _)
codeBlockRule(t, p) ==
  IF p > Len(t) THEN << >>
  ELSE IF ~startsAt(t, p, Fence) THEN << t[p] >> \o codeBlockRule(t, p + 1)
  ELSE LET w == firstOf(t, p + 3, { c \in { t[n] : n \in DOMAIN t } : c \notin WordChars })
           s0 == IF w <= Len(t) /\ t[w] = "\n" THEN w + 1 ELSE w
           c0 == firstAt(t, s0, Fence)
           e0 == IF c0 > s0 /\ t[c0 - 1] = "\n" THEN c0 - 1 ELSE c0
       IN  IF c0 = 0
           THEN << t[p] >> \o codeBlockRule(t, p + 1)
           ELSE Code \o slice(t, s0, e0 - 1) \o Code \o codeBlockRule(t, c0 + 3)

\* replace(/`([^`]+)`/g, '{{$1}}')
RECURSIVE inlineCodeRule(_, _)
inlineCodeRule(t, p) ==
  IF p > Len(t) THEN << >>
  ELSE LET q == firstOf(t, p + 1, {Backtick})
       IN  IF t[p] = Backtick /\ q > p + 1 /\ q <= Len(t)
           THEN << "{", "{" >> \o slice(t, p + 1, q - 1) \o << "}", "}" >>
                  \o inlineCodeRule(t, q + 1)
           ELSE << t[p] >> \o inlineCodeRule(t, p + 1)

\* replace(/\[([^\]]+)\]\(([^)]+)\)/g, '[$1|$2]')
RECURSIVE linkRule(_, _)
linkRule(t, p) ==
  IF p > Len(t) THEN << >>
  ELSE LET q == firstOf(t, p + 1, {"]"})
           r == firstOf(t, q + 2, {")"})
           hit == /\ t[p] = "["
                  /\ q > p + 1
                  /\ q + 1 <= Len(t)
                  /\ t[q + 1] = "("
                  /\ r > q + 2
                  /\ r <= Len(t)
       IN  IF hit
           THEN << "[" >> \o slice(t, p + 1, q - 1) \o << "|" >>
                  \o slice(t, q + 2, r - 1) \o << "]" >> \o linkRule(t, r + 1)
           ELSE << t[p] >> \o linkRule(t, p + 1)

\* the earlier copy's order with its italic rule after the bold rule
formatJiraText_Italic(t) ==
  LET headers == headerRule(headerRule(headerRule(t, 1), 2), 3)
      bold    == italicRule(boldRule(headers, 1), 1)
      blocks  == codeBlockRule(bold, 1)
      inline  == inlineCodeRule(blocks, 1)
      links   == linkRule(inline, 1)
  IN  listRule(links)

\* the replaces in the order of the source, each over the whole output of
\* the one before
formatJiraText(t) ==
  LET headers == headerRule(headerRule(headerRule(t, 1), 2), 3)
      bold    == boldRule(headers, 1)
      blocks  == codeBlockRule(bold, 1)
      inline  == inlineCodeRule(blocks, 1)
      links   == linkRule(inline, 1)
  IN  listRule(links)

MaxTokens == 3

\* a piece of markup and the characters it is written with
Part(kind, chars) == [ kind |-> kind, chars |-> chars ]

Plain == Part("plain", << "a" >>)

Newline == Part("newline", << "\n" >>)

MarkdownLink == Part("link", << "[", "l", "]", "(", "u", ")" >>)

\* '# ', '## ', '### '
HeaderPrefix(n) == Part("header", Hashes(n) \o << " " >>)

ListPrefix == Part("list", << "-", " " >>)

BoldParts ==
  { Part("bold", << "*", "*", "b", "*", "*" >>),
    Part("bold", << "*", "*", "c", " ", "d", "*", "*" >>) }

Italic == Part("italic", << "*", "i", "*" >>)

Underscore == Part("underscore", << "_", "u", "_" >>)

InlineCode == Part("code", << Backtick, "c", Backtick >>)

\* texts whose only markup is headers, list items and links
MarkdownParts ==
  { HeaderPrefix(1), HeaderPrefix(2), HeaderPrefix(3), ListPrefix, MarkdownLink,
    Plain, Newline }

\* texts already written in the target markup
NativeParts ==
  { Part("native", << "h", "1", ".", " " >>),
    Part("native", << "*", " " >>),
    Part("native", << "[", "l", "|", "u", "]" >>),
    Plain, Newline }

\* texts whose only markup is spans
SpanParts == BoldParts \cup { Italic, Underscore, Plain, Newline }

\* what stands between the fences of a block
BodyParts ==
  { HeaderPrefix(1), ListPrefix, MarkdownLink, InlineCode,
    Part("bold", << "*", "*", "b", "*", "*" >>), Plain, Newline }

Tags == { << >>, << "j", "s" >> }

FenceOpen(tag) == Part("fenceOpen", Fence \o tag \o << "\n" >>)

FenceClose == Part("fenceClose", << "\n" >> \o Fence)

\* sequences of length 0 .. n over a set
SeqsUpTo(S, n) == UNION { [ 1 .. m -> S ] : m \in 0 .. n }

\* one fenced block around a body of at most MaxTokens parts
FencedBlocks ==
  { << FenceOpen(tag) >> \o body \o << FenceClose >> :
      tag \in Tags, body \in SeqsUpTo(BodyParts, MaxTokens) }

Inputs ==
  SeqsUpTo(MarkdownParts, MaxTokens) \cup SeqsUpTo(NativeParts, MaxTokens)
    \cup SeqsUpTo(SpanParts, MaxTokens) \cup FencedBlocks

RECURSIVE Written(_)
Written(ps) == IF ps = << >> THEN << >> ELSE Head(ps).chars \o Written(Tail(ps))

\* a caller (addComment, createTicket, updateTicket) passes a text
CallFormatJiraText ==
  /\ pc = "idle"
  /\ op' = "formatJiraText"
  /\ \E ps \in Inputs : parts' = ps /\ text' = Written(ps)
  /\ pc' = "format"
  /\ UNCHANGED << remoteVars, calls, failures, changes, batchVars, storyKey,
                  storyVars, result, validation, isLegacyMode, serverCapabilities >>
  /\ UNCHANGED laterVars

\* the rewritten text is returned
FormatJiraText ==
  /\ pc = "format"
  /\ result' = [ ok |-> TRUE, pending |-> FALSE, value |-> formatJiraText(text) ]
  /\ pc' = "done"
  /\ UNCHANGED << remoteVars, op, calls, failures, changes, batchVars, storyKey,
                  storyVars >>
  /\ UNCHANGED otherVars

InitFormat ==
  /\ topo = TopoScenario
  /\ status = [ k \in Keys(topo) \cup topo.tasks |-> "To Do" ]
  /\ InitLocals
  /\ InitCloud

NextFormat == CallFormatJiraText \/ FormatJiraText \/ Respond

SpecFormat == InitFormat /\ [][NextFormat]_vars

(* ------------------- initialize and the discovery ---------------------- *)

MissingVariables ==
  "Missing required JIRA environment variables: JIRA_BASE_URL, JIRA_API_TOKEN"

MissingEmail == "JIRA Cloud requires JIRA_EMAIL environment variable"

NotSupported ==
  "Failed to link issues: Error: Issue linking not supported in this JIRA Server version"

Methods == {"getTicket", "linkIssues", "createTicket"}

\* what initialize() throws, "" when it returns
initializeThrows ==
  IF initialized THEN ""
  ELSE IF ~env.JIRA_BASE_URL \/ ~env.JIRA_API_TOKEN THEN MissingVariables
  ELSE IF ~env.JIRA_LEGACY_API /\ ~env.JIRA_EMAIL THEN MissingEmail
  ELSE ""

\* an initialize() without its first line: it builds the clients on every call
initialize_Always ==
  IF ~env.JIRA_BASE_URL \/ ~env.JIRA_API_TOKEN
  THEN UNCHANGED << initialized, clients, isLegacyMode, discovery >>
  ELSE /\ isLegacyMode' = env.JIRA_LEGACY_API
       /\ IF ~env.JIRA_LEGACY_API /\ ~env.JIRA_EMAIL
          THEN UNCHANGED << initialized, clients, discovery >>
          ELSE /\ initialized' = TRUE
               /\ clients' = clients + 1
               /\ discovery' = IF env.JIRA_LEGACY_API THEN "field" ELSE discovery

\* initialize(): nothing when initialized; else the environment is read, the
\* clients are built and, in legacy mode, the discovery is started
initialize ==
  IF initialized \/ ~env.JIRA_BASE_URL \/ ~env.JIRA_API_TOKEN
  THEN UNCHANGED << initialized, clients, isLegacyMode, discovery >>
  ELSE /\ isLegacyMode' = env.JIRA_LEGACY_API
       /\ IF ~env.JIRA_LEGACY_API /\ ~env.JIRA_EMAIL
          THEN UNCHANGED << initialized, clients, discovery >>
          ELSE /\ initialized' = TRUE
               /\ clients' = clients + 1
               /\ discovery' = IF env.JIRA_LEGACY_API THEN "field" ELSE discovery

\* what the service methods of this part leave alone
idleLocals ==
  << remoteVars, failures, changes, batchVars, storyKey, storyVars, validation, text,
     parts, previous, setupVars, hierarchyVars >>

\* getJiraService() alone: the service is constructed, nothing is read
GetJiraService ==
  /\ pc = "idle"
  /\ ~jiraService
  /\ jiraService' = TRUE
  /\ UNCHANGED << idleLocals, pc, op, calls, result, isLegacyMode, serverCapabilities,
                  env, initialized, clients, fieldMappings, discovery, server, issuePayload,
                  response >>

\* the environment of the process changes between two calls
SetEnv ==
  /\ pc = "idle"
  /\ \E e \in Environment :
       /\ Cardinality({ v \in DOMAIN e : e[v] # env[v] }) = 1
       /\ env' = e
  /\ UNCHANGED << idleLocals, pc, op, calls, result, isLegacyMode, serverCapabilities,
                  jiraService, initialized, clients, fieldMappings, discovery, server,
                  issuePayload, response >>

\* a tool handler calls getJiraService().<method>(...): initialize(), then the
\* method up to its request; createTicket is given an epicLink
CallMethod ==
  /\ pc = "idle"
  /\ \E method \in Methods : op' = method
  /\ jiraService' = TRUE
  /\ initialize
  /\ response' = NoResponse
  /\ IF initializeThrows # ""
     THEN /\ result' = Thrown(initializeThrows)
          /\ pc' = "done"
          /\ issuePayload' = NoPayload
     ELSE IF op' = "linkIssues" /\ isLegacyMode' /\
               ~(serverCapabilities.known /\ serverCapabilities.hasIssueLinks)
     THEN /\ result' = Thrown(NotSupported)
          /\ pc' = "done"
          /\ issuePayload' = NoPayload
     ELSE /\ result' = result
          /\ pc' = "request"
          /\ issuePayload' = IF op' # "createTicket" THEN NoPayload
                             ELSE IF isLegacyMode'
                                  THEN [ epicLinkField |-> fieldMappings.epicLink ]
                                  ELSE [ epicLinkField |-> "parent" ]
  /\ UNCHANGED << idleLocals, calls, serverCapabilities, env, fieldMappings, server >>

RequestOk ==
  /\ pc = "request"
  /\ calls' = Append(calls, Call(op, "", "", TRUE))
  /\ result' = [ ok |-> TRUE, pending |-> FALSE ]
  /\ pc' = "done"
  /\ UNCHANGED << remoteVars, op, failures, changes, batchVars, storyKey, storyVars >>
  /\ UNCHANGED otherVars

RequestFail ==
  /\ pc = "request"
  /\ CanFail
  /\ failures' = failures + 1
  /\ calls' = Append(calls, Call(op, "", "", FALSE))
  /\ result' = Thrown(ApiError(op))
  /\ pc' = "done"
  /\ UNCHANGED << remoteVars, op, changes, batchVars, storyKey, storyVars >>
  /\ UNCHANGED otherVars

\* the text of a handler's response when its service call has succeeded
successText(method) ==
  IF method = "linkIssues" THEN "Successfully linked"
  ELSE "JSON.stringify(ticket)"

\* a handler whose catch returns the message without the isError flag
toolResponse_Unflagged(method, r) ==
  IF r.ok THEN [ content |-> << [ type |-> "text", text |-> successText(method) ] >> ]
  ELSE [ content |-> << [ type |-> "text", text |-> "Error: " \o r.error ] >> ]

\* try { await getJiraService().<method>(...); return {content} }
\* catch (error) { return {content: [Error: message], isError: true} }
toolResponse(method, r) ==
  IF r.ok THEN [ content |-> << [ type |-> "text", text |-> successText(method) ] >> ]
  ELSE [ content |-> << [ type |-> "text", text |-> "Error: " \o r.error ] >>,
         isError |-> TRUE ]

\* the tool handler resolves: its service call has returned or thrown
ToolResponse ==
  /\ pc = "done"
  /\ op \in Methods
  /\ response' = toolResponse(op, result)
  /\ pc' = "idle"
  /\ op' = "none"
  /\ calls' = << >>
  /\ failures' = 0
  /\ changes' = 0
  /\ storyKey' = ""
  /\ result' = NoResult
  /\ FreshBatch
  /\ FreshStory
  /\ UNCHANGED << remoteVars, validation, text, parts, previous, isLegacyMode,
                  serverCapabilities, jiraService, env, initialized, clients, fieldMappings,
                  discovery, server, issuePayload, setupVars, hierarchyVars >>

\* what the discovery leaves alone
discoveryFrame ==
  << idleLocals, pc, op, calls, result, isLegacyMode, jiraService, env, initialized,
     clients, server, issuePayload, response >>

\* GET /field answers: the epic link field by name, or the default id
DiscoverFieldsOk ==
  /\ discovery = "field"
  /\ fieldMappings' = IF server.epicLink = "absent" THEN DefaultMappings
                      ELSE [ epicLink |-> server.epicLink ]
  /\ discovery' = "serverInfo"
  /\ UNCHANGED << discoveryFrame, serverCapabilities >>

\* GET /field fails: default mappings and assumed capabilities
DiscoverFieldsFail ==
  /\ discovery = "field"
  /\ fieldMappings' = DefaultMappings
  /\ serverCapabilities' = [ known |-> TRUE, hasIssueLinks |-> TRUE ]
  /\ discovery' = "done"
  /\ UNCHANGED discoveryFrame

\* GET /serverInfo answers; testIssueLinkSupport is awaited next
ServerInfoOk ==
  /\ discovery = "serverInfo"
  /\ discovery' = "issueLinkType"
  /\ UNCHANGED << discoveryFrame, serverCapabilities, fieldMappings >>

ServerInfoFail ==
  /\ discovery = "serverInfo"
  /\ serverCapabilities' = [ known |-> TRUE, hasIssueLinks |-> TRUE ]
  /\ discovery' = "done"
  /\ UNCHANGED << discoveryFrame, fieldMappings >>

\* GET /issueLinkType answers on a server with issue links
IssueLinkTypeOk ==
  /\ discovery = "issueLinkType"
  /\ server.hasIssueLinks
  /\ serverCapabilities' = [ known |-> TRUE, hasIssueLinks |-> TRUE ]
  /\ discovery' = "done"
  /\ UNCHANGED << discoveryFrame, fieldMappings >>

\* GET /issueLinkType fails: testIssueLinkSupport returns false
IssueLinkTypeFail ==
  /\ discovery = "issueLinkType"
  /\ serverCapabilities' = [ known |-> TRUE, hasIssueLinks |-> FALSE ]
  /\ discovery' = "done"
  /\ UNCHANGED << discoveryFrame, fieldMappings >>

\* a process that has only loaded the module, in any environment
InitService ==
  /\ topo = TopoScenario
  /\ status = [ k \in Keys(topo) \cup topo.tasks |-> "To Do" ]
  /\ InitLocals
  /\ isLegacyMode = FALSE
  /\ serverCapabilities = NoCapabilities
  /\ jiraService = FALSE
  /\ env \in Environment
  /\ initialized = FALSE
  /\ clients = 0
  /\ fieldMappings = NoMappings
  /\ discovery = "none"
  /\ server \in [ hasIssueLinks : BOOLEAN, epicLink : {"customfield_10100", "absent"} ]
  /\ issuePayload = NoPayload
  /\ response = NoResponse

NextService ==
  \/ GetJiraService
  \/ SetEnv
  \/ CallMethod
  \/ RequestOk
  \/ RequestFail
  \/ ToolResponse
  \/ DiscoverFieldsOk
  \/ DiscoverFieldsFail
  \/ ServerInfoOk
  \/ ServerInfoFail
  \/ IssueLinkTypeOk
  \/ IssueLinkTypeFail

SpecService == InitService /\ [][NextService]_vars

(* -------------------- verifyMcpServerConnection ------------------------ *)

\* the pieces of stdout a data event brings: at most MaxChunks per run
MaxChunks == 3

\* pieces of text: 'capabil' followed by 'ities' reads 'capabilities'
Chunk == {"x", "capabil", "ities", "tools", "\"jsonrpc\"", "jsonrpc"}

\* exit codes of the close event: null when the child was ended by a signal
Codes == {"null", "0", "1"}

\* out.includes('"jsonrpc"')
includesQuotedJsonrpc(out) == \E n \in 1 .. Len(out) : out[n] = "\"jsonrpc\""

\* out.includes('jsonrpc')
includesJsonrpc(out) == \E n \in 1 .. Len(out) : out[n] \in {"\"jsonrpc\"", "jsonrpc"}

\* out.includes('capabilities')
includesCapabilities(out) ==
  \E n \in 1 .. Len(out) - 1 : out[n] = "capabil" /\ out[n + 1] = "ities"

\* out.includes('tools')
includesTools(out) == \E n \in 1 .. Len(out) : out[n] = "tools"

\* the test of the stdout handler
initialized_indicated(out) ==
  includesQuotedJsonrpc(out) \/ includesCapabilities(out) \/ includesTools(out)

\* a close handler that fails on every non-zero exit code
closeOutcome_AnyNonZero(code, out) ==
  IF code # "null" /\ code # "0" THEN "false" ELSE "true"

\* what the close handler resolves with
closeOutcome(code, out) ==
  IF code # "null" /\ code # "0" /\ ~includesJsonrpc(out) THEN "false" ELSE "true"

\* resolve(v): only the first call settles the promise
resolve(v) == IF verified = "pending" THEN v ELSE verified

\* clearTimeout(timeout)
clearTimeout == IF timeout = "armed" THEN "cleared" ELSE timeout

Event(name, code) == [ event |-> name, code |-> code, output |-> output' ]

\* what verifyMcpServerConnection leaves alone
verifyFrame ==
  << remoteVars, pc, op, calls, failures, changes, batchVars, storyKey, storyVars, result,
     validation, text, parts, isLegacyMode, serverCapabilities, previous, serviceVars,
     configVars, hierarchyVars >>

\* the child is spawned, the timer is armed, the handlers are registered
Spawn ==
  /\ verified = "none"
  /\ verified' = "pending"
  /\ serverProcess' = "running"
  /\ timeout' = "armed"
  /\ UNCHANGED << killed, output, events, verifyFrame >>

\* the timer fires
Timeout ==
  /\ timeout = "armed"
  /\ timeout' = "fired"
  /\ killed' = TRUE
  /\ verified' = resolve("true")
  /\ output' = output
  /\ events' = Append(events, Event("timeout", "null"))
  /\ UNCHANGED << serverProcess, verifyFrame >>

\* serverProcess.stdout 'data'
StdoutData ==
  /\ serverProcess = "running"
  /\ Len(output) < MaxChunks
  /\ \E data \in Chunk : output' = Append(output, data)
  /\ events' = Append(events, Event("data", "null"))
  /\ IF initialized_indicated(output')
     THEN /\ timeout' = clearTimeout
          /\ killed' = TRUE
          /\ verified' = resolve("true")
     ELSE UNCHANGED << timeout, killed, verified >>
  /\ UNCHANGED << serverProcess, verifyFrame >>

\* serverProcess 'close': the child has ended and its streams are closed
Close ==
  /\ serverProcess \in {"running", "failed"}
  /\ serverProcess' = "closed"
  /\ output' = output
  /\ \E code \in Codes :
       /\ events' = Append(events, Event("close", code))
       /\ verified' = resolve(closeOutcome(code, output))
  /\ timeout' = clearTimeout
  /\ UNCHANGED << killed, verifyFrame >>

\* serverProcess 'error': the child could not be spawned or could not be killed
Error ==
  /\ serverProcess = "running"
  /\ output = << >> \/ killed
  /\ serverProcess' = "failed"
  /\ output' = output
  /\ events' = Append(events, Event("error", "null"))
  /\ timeout' = clearTimeout
  /\ verified' = resolve("false")
  /\ UNCHANGED << killed, verifyFrame >>

InitVerify ==
  /\ topo = TopoScenario
  /\ status = [ k \in Keys(topo) \cup topo.tasks |-> "To Do" ]
  /\ InitLocals
  /\ InitCloud

NextVerify == Spawn \/ Timeout \/ StdoutData \/ Close \/ Error

SpecVerify == InitVerify /\ [][NextVerify]_vars

(* ----------------------- createClaudeCodeConfig ------------------------ *)

\* SetupConfig: JIRA_PROJECT_KEY is optional
Configs ==
  [ JIRA_BASE_URL : {"https://a.atlassian.net", "https://b.atlassian.net"},
    JIRA_PROJECT_KEY : {"undefined", "PROJ"} ]

\* mcpServers['jira-mcp'].env for a SetupConfig (email and token are one fixed
\* pair here)
envOf(cfg) ==
  [ JIRA_BASE_URL |-> cfg.JIRA_BASE_URL,
    JIRA_EMAIL |-> "me@example.com",
    JIRA_API_TOKEN |-> "token",
    JIRA_PROJECT_KEY |-> IF cfg.JIRA_PROJECT_KEY = "undefined" THEN ""
                         ELSE cfg.JIRA_PROJECT_KEY ]

\* the entry the call writes: getServerCommand() and the environment
jiraMcp(cfg) == [ command |-> "npx", args |-> << "bds-jira-mcp" >>, env |-> envOf(cfg) ]

\* entries a user may already have
OtherEntry == [ command |-> "existing", args |-> << "server" >> ]

OldEntry == [ command |-> "node", args |-> << "old.js" >> ]

Entries ==
  { [ k \in keys |-> IF k = "jira-mcp" THEN OldEntry ELSE OtherEntry ] :
      keys \in SUBSET {"existing-server", "jira-mcp"} }

\* values of the key mcpServers: absent, null, a string, an array, an object
McpServers ==
  { [ type |-> t, entries |-> << >> ] : t \in {"absent", "null", "string", "array"} }
    \cup { [ type |-> "object", entries |-> e ] : e \in Entries }

\* JSON values of the file: null, a number or string, an array, an object
Values ==
  { [ type |-> t, otherSettings |-> "absent", mcpServers |-> [ type |-> "absent",
                                                                entries |-> << >> ] ] :
      t \in {"null", "primitive", "array"} }
    \cup [ type : {"object"}, otherSettings : {"absent", "dark", "light"},
           mcpServers : McpServers ]

\* ~/.claude.json: missing, not JSON, or JSON
Files ==
  { [ kind |-> "absent" ], [ kind |-> "unparsable" ] }
    \cup { [ kind |-> "json", value |-> v ] : v \in Values }

EmptyObject ==
  [ type |-> "object", otherSettings |-> "absent",
    mcpServers |-> [ type |-> "absent", entries |-> << >> ] ]

\* existingConfig after the read: {} unless the file exists and parses
existingConfigOf(file) == IF file.kind = "json" THEN file.value ELSE EmptyObject

\* the property accesses and assignments throw a TypeError: on null, on a
\* primitive value, on a primitive mcpServers
assignThrows(v) ==
  \/ v.type \in {"null", "primitive"}
  \/ v.type = "object" /\ v.mcpServers.type = "string"

\* f with key k set to e
setKey(f, k, e) == [ j \in DOMAIN f \cup {k} |-> IF j = k THEN e ELSE f[j] ]

\* a merge that starts from an empty mcpServers
withEntry_Fresh(v, e) ==
  IF v.type # "object" \/ v.mcpServers.type = "array" THEN v
  ELSE [ v EXCEPT !.mcpServers = [ type |-> "object", entries |-> setKey(<< >>, "jira-mcp", e) ] ]

\* the value JSON.stringify writes after mcpServers['jira-mcp'] = e: a
\* property set on an array is not written, a falsy mcpServers was replaced by {}
withEntry(v, e) ==
  IF v.type # "object" \/ v.mcpServers.type = "array" THEN v
  ELSE [ v EXCEPT !.mcpServers =
           [ type |-> "object",
             entries |-> setKey(IF v.mcpServers.type = "object" THEN v.mcpServers.entries
                                ELSE << >>, "jira-mcp", e) ] ]

\* what createClaudeCodeConfig leaves alone
configFrame ==
  << remoteVars, pc, op, calls, failures, changes, batchVars, storyKey, storyVars, result,
     validation, text, parts, isLegacyMode, serverCapabilities, previous, serviceVars,
     verifyVars, hierarchyVars >>

\* the user or another program rewrites ~/.claude.json
EditClaudeJson ==
  /\ claudeJson' \in Files \ {claudeJson}
  /\ before' = claudeJson'
  /\ config' = NoConfig
  /\ UNCHANGED configFrame

\* createClaudeCodeConfig(cfg) and the file is written
CreateClaudeCodeConfig ==
  /\ \E cfg \in Configs : config' = cfg
  /\ before' = claudeJson
  /\ ~assignThrows(existingConfigOf(claudeJson))
  /\ claudeJson' = [ kind |-> "json",
                     value |-> withEntry(existingConfigOf(claudeJson), jiraMcp(config')) ]
  /\ UNCHANGED configFrame

\* createClaudeCodeConfig(cfg) and the outer catch after a TypeError of the
\* merge: nothing is written
CreateClaudeCodeConfigThrows ==
  /\ \E cfg \in Configs : config' = cfg
  /\ before' = claudeJson
  /\ assignThrows(existingConfigOf(claudeJson))
  /\ claudeJson' = claudeJson
  /\ UNCHANGED configFrame

\* createClaudeCodeConfig(cfg) and the outer catch after writeFileSync has
\* thrown
CreateClaudeCodeConfigWriteFails ==
  /\ \E cfg \in Configs : config' = cfg
  /\ before' = claudeJson
  /\ ~assignThrows(existingConfigOf(claudeJson))
  /\ claudeJson' = claudeJson
  /\ UNCHANGED configFrame

InitConfig ==
  /\ topo = TopoScenario
  /\ status = [ k \in Keys(topo) \cup topo.tasks |-> "To Do" ]
  /\ InitLocals
  /\ InitCloud

NextConfig ==
  \/ EditClaudeJson
  \/ CreateClaudeCodeConfig
  \/ CreateClaudeCodeConfigThrows
  \/ CreateClaudeCodeConfigWriteFails

SpecConfig == InitConfig /\ [][NextConfig]_vars

(* ----------------------- createProjectHierarchy ------------------------ *)

\* stories of one hierarchy, tasks of one story
MaxStories == 2

MaxTasks == 2

\* hierarchy.stories, each story by the number of its tasks
Hierarchies ==
  UNION { [ 1 .. n -> 0 .. MaxTasks ] : n \in 0 .. MaxStories }

\* a project without issues; an issue has a parent and issue links, and the
\* search `parent = E-1` answers epicIssues
EmptyRemote ==
  [ root |-> "none", epicIssues |-> << >>, links |-> << >>, tasks |-> {}, parents |-> << >> ]

StoryKey(n) == "S-" \o ToString(n)

TaskKey(n) == "T-" \o ToString(n)

RECURSIVE taskCount(_)
\* the tasks created for the stories of results
taskCount(rs) == IF rs = << >> THEN 0 ELSE Len(Head(rs).tasks) + taskCount(Tail(rs))

\* the key the remote gives to the ticket being created
newKey ==
  IF pc = "createEpic" THEN EpicKey
  ELSE IF pc = "createStory" THEN StoryKey(Len(results) + 1)
  ELSE TaskKey(taskCount(results) + Len(tasks) + 1)

\* the story at hand
storyAtHand == StoryKey(Len(results) + 1)

HierarchyThrows(cause) == Thrown("Failed to create project hierarchy: Error: " \o cause)

\* what the steps of createProjectHierarchy leave alone
hierarchyFrame ==
  << changes, batchVars, storyKey, storyVars, validation, text, parts, isLegacyMode,
     serverCapabilities, serviceVars, setupVars >>

\* after a story and its tasks: results.push, then the next story or the return
storyDone(ts) ==
  /\ results' = Append(results, [ story |-> storyAtHand, tasks |-> ts ])
  /\ tasks' = << >>
  /\ IF Len(results') < Len(hierarchy)
     THEN pc' = "createStory" /\ result' = result
     ELSE /\ pc' = "done"
          /\ result' = [ ok |-> TRUE, pending |-> FALSE,
                         value |-> [ epic |-> EpicKey, stories |-> results' ] ]

\* entry: the method waits for createTicket of the epic
CallCreateProjectHierarchy ==
  /\ pc = "idle"
  /\ topo.root = "none"
  /\ op' = "createProjectHierarchy"
  /\ hierarchy' \in Hierarchies
  /\ pc' = "createEpic"
  /\ UNCHANGED << remoteVars, calls, failures, result, results, tasks, previous,
                  hierarchyFrame >>

\* createTicket returns: the remote has a new issue, To Do, without parent
\* and without links
CreateTicketOk ==
  /\ pc \in {"createEpic", "createStory", "createTask"}
  /\ calls' = Append(calls, Call("createTicket", newKey, "", TRUE))
  /\ status' = setKey(status, newKey, "To Do")
  /\ topo' = [ topo EXCEPT
                 !.root  = IF pc = "createEpic" THEN "Epic" ELSE @,
                 !.links = setKey(@, newKey, << >>),
                 !.tasks = IF pc = "createTask" THEN @ \cup {newKey} ELSE @ ]
  /\ IF pc = "createEpic" /\ hierarchy = << >>
     THEN /\ pc' = "done"
          /\ result' = [ ok |-> TRUE, pending |-> FALSE,
                         value |-> [ epic |-> EpicKey, stories |-> << >> ] ]
     ELSE /\ pc' = CASE pc = "createEpic"  -> "createStory"
                    [] pc = "createStory" -> "setEpicLink"
                    [] OTHER              -> "setStoryLink"
          /\ result' = result
  /\ UNCHANGED << op, failures, hierarchy, results, tasks, previous, hierarchyFrame >>

CreateTicketFail ==
  /\ pc \in {"createEpic", "createStory", "createTask"}
  /\ CanFail
  /\ failures' = failures + 1
  /\ calls' = Append(calls, Call("createTicket", newKey, "", FALSE))
  /\ result' = HierarchyThrows(ApiError("createTicket"))
  /\ pc' = "done"
  /\ UNCHANGED << remoteVars, op, hierarchy, results, tasks, previous, hierarchyFrame >>

\* setEpicLink(story.key, epic.key) returns: the story's parent is the epic
SetEpicLinkOk ==
  /\ pc = "setEpicLink"
  /\ calls' = Append(calls, Call("setEpicLink", storyAtHand, EpicKey, TRUE))
  /\ topo' = [ topo EXCEPT
                 !.parents    = setKey(@, storyAtHand, EpicKey),
                 !.epicIssues = Append(@, Issue(storyAtHand, "Story")) ]
  /\ IF hierarchy[Len(results) + 1] > 0
     THEN /\ pc' = "createTask"
          /\ UNCHANGED << result, results, tasks >>
     ELSE storyDone(<< >>)
  /\ UNCHANGED << status, op, failures, hierarchy, previous, hierarchyFrame >>

\* setEpicLink(task.key, story.key) returns: the task's parent is the story;
\* tasks.push(task)
SetStoryLinkOk ==
  /\ pc = "setStoryLink"
  /\ LET task == TaskKey(taskCount(results) + Len(tasks) + 1) IN
       /\ calls' = Append(calls, Call("setEpicLink", task, storyAtHand, TRUE))
       /\ topo' = [ topo EXCEPT !.parents = setKey(@, task, storyAtHand) ]
       /\ IF Len(tasks) + 1 < hierarchy[Len(results) + 1]
          THEN /\ tasks' = Append(tasks, task)
               /\ pc' = "createTask"
               /\ UNCHANGED << result, results >>
          ELSE storyDone(Append(tasks, task))
  /\ UNCHANGED << status, op, failures, hierarchy, previous, hierarchyFrame >>

SetEpicLinkFail ==
  /\ pc \in {"setEpicLink", "setStoryLink"}
  /\ CanFail
  /\ failures' = failures + 1
  /\ calls' = Append(calls, Call("setEpicLink", "", "", FALSE))
  /\ result' = HierarchyThrows(ApiError("setEpicLink"))
  /\ pc' = "done"
  /\ UNCHANGED << remoteVars, op, hierarchy, results, tasks, previous, hierarchyFrame >>

\* the create_project_hierarchy handler resolves
RespondHierarchy ==
  /\ pc = "done"
  /\ op = "createProjectHierarchy"
  /\ previous' = [ op |-> op, clean |-> result.ok ]
  /\ pc' = "idle"
  /\ op' = "none"
  /\ calls' = << >>
  /\ failures' = 0
  /\ result' = NoResult
  /\ hierarchy' = << >>
  /\ results' = << >>
  /\ tasks' = << >>
  /\ UNCHANGED << remoteVars, hierarchyFrame >>

\* the hierarchy has been created without an error
Created == previous = [ op |-> "createProjectHierarchy", clean |-> TRUE ]

\* analyze_story_status on an issue of the created hierarchy
AnalyzeCreated == Created /\ CallAnalyzeStoryStatus

\* validate_project_structure on the created epic
ValidateCreated == Created /\ CallValidateProjectStructure

\* the handlers of the two reading tools resolve
RespondCreated == op # "createProjectHierarchy" /\ Respond

InitHierarchy ==
  /\ topo = EmptyRemote
  /\ status = << >>
  /\ InitLocals
  /\ InitCloud

\* the issue links of the created hierarchy hold no task, so the reading
\* calls never wait for a task
NextHierarchy ==
  \/ CallCreateProjectHierarchy
  \/ CreateTicketOk
  \/ CreateTicketFail
  \/ SetEpicLinkOk
  \/ SetStoryLinkOk
  \/ SetEpicLinkFail
  \/ RespondHierarchy
  \/ AnalyzeCreated
  \/ GetStoryOk
  \/ GetStoryFail
  \/ GetIssueLinksOk
  \/ GetIssueLinksFail
  \/ Analyze
  \/ ValidateCreated
  \/ ValidateGetTicketOk
  \/ ValidateGetTicketFail
  \/ ValidateGetEpicIssuesOk
  \/ ValidateGetEpicIssuesFail
  \/ ValidateGetIssueLinksOk
  \/ ValidateGetIssueLinksFail
  \/ RespondCreated

SpecHierarchy == InitHierarchy /\ [][NextHierarchy]_vars

(* ------------------------------ C11 ------------------------------------ *)

\* the keys of the issues of type Story, in the order of the epic's issue list
RECURSIVE StoryKeysInOrder(_)
StoryKeysInOrder(issues) ==
  IF issues = << >> THEN << >>
  ELSE (IF Head(issues).type = "Story" THEN << Head(issues).key >> ELSE << >>)
         \o StoryKeysInOrder(Tail(issues))

\* the story an external call of the batch is made for: the story itself,
\* or the story one of whose links names the fetched task
MadeFor(k) ==
  { j \in Indices(stories) :
      \/ stories[j] = k
      \/ \E n \in Indices(topo.links[stories[j]]) :
           LET l == topo.links[stories[j]][n] IN
             k \in {l.inwardIssue.key, l.outwardIssue.key} /\ k \in topo.tasks }

\* C11: the batch works through the stories in the order getEpicIssues
\* returned them; in the sequence of its external calls no call made for a
\* story comes after a call made for a later story, and every story is
\* fetched at most once while the batch runs and exactly once when it is
\* over (a story that failed is not tried again).
C11_Sequential ==
  (op = "updateAllStoryStatuses" /\ calls # << >> /\ calls[1].ok) =>
    /\ stories = StoryKeysInOrder(topo.epicIssues)
    /\ \A n \in 2 .. Len(calls) : MadeFor(calls[n].key) # {}
    /\ \A n, m \in 2 .. Len(calls) :
         n < m => \A a \in MadeFor(calls[n].key), b \in MadeFor(calls[m].key) : a <= b
    /\ Len(attempts) <= Len(stories)
    /\ \A j \in Indices(attempts) : attempts[j].storyKey = stories[j]
    /\ \A j \in Indices(stories) :
         LET fetches == { n \in CallsOn(stories[j], {"getTicket"}) : TRUE } IN
           /\ Cardinality(fetches) <= 1
           /\ pc = "done" => (Cardinality(fetches) = 1 /\ Len(attempts) = Len(stories))

\* the transition of S-1 failed, S-2 was fetched afterwards, and the batch
\* ended with one fetch of S-1
C11_Witness ==
  /\ BatchOver
  /\ \E n, m \in Indices(calls) :
       /\ n < m
       /\ calls[n].op = "updateTicketStatus" /\ calls[n].key = "S-1" /\ ~calls[n].ok
       /\ calls[m].op = "getTicket" /\ calls[m].key = "S-2"
  /\ Cardinality(CallsOn("S-1", {"getTicket"})) = 1
  /\ Len(attempts) = 2

(* ------------------------------ C12 ------------------------------------ *)

\* C12: when a fetch made while analysing a story fails (the story, its
\* links, or one of its linked tasks), a direct analyzeStoryStatus or
\* updateStoryStatusBasedOnTasks call produces no analysis and fails.
C12_NoFetchFailureSwallowed ==
  ( /\ op \in {"analyzeStoryStatus", "updateStoryStatusBasedOnTasks"}
    /\ \E n \in Indices(calls) :
         ~calls[n].ok /\ calls[n].op \in {"getTicket", "getIssueLinks"} ) =>
    /\ ~analysis.defined
    /\ pc = "done" => ~result.ok

(* ------------------------------ C13 ------------------------------------ *)

\* validateProjectStructure has returned a value
Validated ==
  op = "validateProjectStructure" /\ pc = "done" /\ result.ok

Range(sq) == { sq[n] : n \in DOMAIN sq }

\* C13: the returned isValid is true exactly when issues is empty, which is
\* exactly when the root's type is 'Epic'; for any other root type issues
\* holds the entry '<key> is not an Epic (type: <type>)' and isValid is
\* false; warnings have no part in it.
C13_ValidIffEpic ==
  Validated =>
    LET v == result.value IN
      /\ v.isValid <=> (v.issues = << >>)
      /\ (v.issues = << >>) <=> (topo.root = "Epic")
      /\ topo.root # "Epic" =>
           /\ v.issues = << NotAnEpic(EpicKey, topo.root) >>
           /\ v.issues[1] = "E-1 is not an Epic (type: " \o topo.root \o ")"
           /\ ~v.isValid

\* a valid epic that collected two warnings
C13_Witness ==
  /\ Validated
  /\ result.value.isValid
  /\ Len(result.value.warnings) >= 2
  /\ topo.root = "Epic"

(* ------------------------------ C14 ------------------------------------ *)

\* C14: for a root of type 'Epic' without children the result is valid, has
\* no issues, warns 'Epic <key> has no linked stories or tasks', and no
\* links were fetched.
C14_EmptyEpic ==
  (Validated /\ topo.root = "Epic" /\ topo.epicIssues = << >>) =>
    /\ result.value.isValid
    /\ result.value.issues = << >>
    /\ "Epic E-1 has no linked stories or tasks" \in Range(result.value.warnings)
    /\ \A n \in Indices(calls) : calls[n].op # "getIssueLinks"

\* the childless epic on Cloud: the warning is the only one
C14_Witness ==
  /\ Validated
  /\ topo.root = "Epic"
  /\ topo.epicIssues = << >>
  /\ ~isLegacyMode
  /\ result.value.warnings = << NoChildren(EpicKey) >>

(* ------------------------------ C15 ------------------------------------ *)

\* the link fetches made for a child
LinkFetches(key) == CallsOn(key, {"getIssueLinks"})

HasTaskLink(links) ==
  \E n \in Indices(links) :
    links[n].inwardIssue.type = "Task" \/ links[n].outwardIssue.type = "Task"

\* C15 as stated: links are fetched only for the children of type 'Story';
\* a Story child is warned about iff none of its links has an inward or
\* outward Task; other children cause no fetch and no warning.
C15_AsStated ==
  Validated =>
    \A n \in Indices(topo.epicIssues) :
      LET child == topo.epicIssues[n] IN
        /\ (LinkFetches(child.key) # {}) <=> (child.type = "Story")
        /\ (NoLinkedTasks(child.key) \in Range(result.value.warnings)) <=>
             (child.type = "Story" /\ ~HasTaskLink(topo.links[child.key]))

\* C15: the links of every child are fetched once, whatever its type,
\* unless the service is in legacy mode without known issue-link support,
\* where no links are fetched; 'Story <key> has no linked tasks' is recorded
\* iff links were fetched, the child is a Story and none of its links has an
\* inward or outward Task.
C15_EveryChildFetched ==
  Validated =>
    \A n \in Indices(topo.epicIssues) :
      LET child == topo.epicIssues[n] IN
        /\ Cardinality(LinkFetches(child.key)) = IF skipLinkValidation THEN 0 ELSE 1
        /\ (NoLinkedTasks(child.key) \in Range(result.value.warnings)) <=>
             /\ ~skipLinkValidation
             /\ child.type = "Story"
             /\ ~HasTaskLink(topo.links[child.key])

\* a Bug child whose links were fetched, next to a Story whose only Task
\* link is an outward one and that is not warned about
C15_Witness ==
  /\ Validated
  /\ Len(topo.epicIssues) = 2
  /\ topo.epicIssues[1].type = "Bug"
  /\ LinkFetches(topo.epicIssues[1].key) # {}
  /\ topo.epicIssues[2].type = "Story"
  /\ topo.links[topo.epicIssues[2].key] = << Link(None, Issue("T-2", "Task")) >>
  /\ NoLinkedTasks(topo.epicIssues[2].key) \notin Range(result.value.warnings)

(* ------------------------------ C16 ------------------------------------ *)

\* formatJiraText has returned
Formatted == op = "formatJiraText" /\ pc = "done" /\ result.ok

Kinds(ps) == { ps[n].kind : n \in DOMAIN ps }

Contains(t, pattern) == firstAt(t, 1, pattern) # 0

\* the text is one fenced block
IsFencedBlock == parts # << >> /\ parts[1].kind = "fenceOpen"

FencedBody == Written(SubSeq(parts, 2, Len(parts) - 1))

FencedTag == SubSeq(parts[1].chars, 4, Len(parts[1].chars) - 1)

\* C16: for a fenced block (opening fence with an optional language tag, a
\* body, closing fence) the output contains '{code}' + body + '{code}' with
\* the body character for character as in the input, whatever it contains,
\* and the language tag does not appear in the output.
C16_BodyVerbatim ==
  (Formatted /\ IsFencedBlock) =>
    /\ Contains(result.value, Code \o FencedBody \o Code)
    /\ FencedTag # << >> => ~Contains(result.value, FencedTag)

(* ------------------------------ C17 ------------------------------------ *)

\* the text is made of header prefixes, plain characters and newlines only
OnlyHeaders == parts # << >> /\ Kinds(parts) \subseteq {"header", "plain", "newline"}

PartAtLineStart(n) == n = 1 \/ parts[n - 1].kind = "newline"

\* something follows the part on its line
PartHasRest(n) == n < Len(parts) /\ parts[n + 1].kind # "newline"

\* the pieces of a text put together
RECURSIVE Joined(_)
Joined(pieces) == IF pieces = << >> THEN << >> ELSE Head(pieces) \o Joined(Tail(pieces))

\* the text with every part rewritten as rewrite(n) says
Rewritten(rewrite(_)) == Joined([ n \in 1 .. Len(parts) |-> rewrite(n) ])

HeaderLevel(n) == Len(parts[n].chars) - 1

\* C17 as stated: every header prefix at the start of a line becomes
\* 'hN. ' and everything else stays.
C17_AsStated ==
  (Formatted /\ OnlyHeaders) =>
    LET rewrite(n) == IF parts[n].kind = "header" /\ PartAtLineStart(n)
                      THEN headerText(HeaderLevel(n))
                      ELSE parts[n].chars
    IN  result.value = Rewritten(rewrite)

\* C17: a prefix of one, two or three '#' and a space at the start of a line
\* becomes 'h1. ', 'h2. ', 'h3. ' when at least one more character follows it
\* on the line, the rest of the line stays; a prefix with nothing after it
\* on its line, and a run of '#' that is not at the start of a line, stay.
C17_HeaderWithRest ==
  (Formatted /\ OnlyHeaders) =>
    LET rewrite(n) == IF parts[n].kind = "header" /\ PartAtLineStart(n) /\ PartHasRest(n)
                      THEN headerText(HeaderLevel(n))
                      ELSE parts[n].chars
    IN  result.value = Rewritten(rewrite)

\* '## a# ': the prefix at the start is rewritten, the one after 'a' is not
C17_Witness ==
  /\ Formatted
  /\ parts = << HeaderPrefix(2), Plain, HeaderPrefix(1) >>
  /\ result.value = << "h", "2", ".", " ", "a", "#", " " >>

(* ------------------------------ C18 ------------------------------------ *)

OnlyBold == "bold" \in Kinds(parts) /\ Kinds(parts) \subseteq {"bold", "plain", "newline"}

\* '**x**' without its outer asterisks: '*x*'
SingleAsterisks(chars) == SubSeq(chars, 2, Len(chars) - 1)

BoldRewritten ==
  LET rewrite(n) == IF parts[n].kind = "bold" THEN SingleAsterisks(parts[n].chars)
                    ELSE parts[n].chars
  IN  Rewritten(rewrite)

AdjacentBold ==
  \E n \in 1 .. Len(parts) - 1 : parts[n].kind = "bold" /\ parts[n + 1].kind = "bold"

\* C18 as stated: for a text whose only markup is double-asterisk spans the
\* output has no '**' and is the input without the removed asterisks.
C18_AsStated ==
  (Formatted /\ OnlyBold) =>
    /\ result.value = BoldRewritten
    /\ ~Contains(result.value, << "*", "*" >>)

\* C18: for a text whose only markup is double-asterisk spans every span
\* '**x**' becomes '*x*' and nothing else changes; the output has a '**'
\* exactly when two spans stand directly next to each other.
C18_SpansRewritten ==
  (Formatted /\ OnlyBold) =>
    /\ result.value = BoldRewritten
    /\ Contains(result.value, << "*", "*" >>) <=> AdjacentBold

\* two spans on one line with a character between them
C18_Witness ==
  /\ Formatted
  /\ Len(parts) = 3
  /\ parts[1].kind = "bold" /\ parts[2] = Plain /\ parts[3].kind = "bold"
  /\ parts[1] # parts[3]
  /\ result.value = SingleAsterisks(parts[1].chars) \o << "a" >>
                      \o SingleAsterisks(parts[3].chars)

(* ------------------------------ C19 ------------------------------------ *)

ItalicApart ==
  /\ Kinds(parts) \subseteq {"bold", "italic", "underscore", "plain", "newline"}
  /\ Kinds(parts) \cap {"italic", "underscore"} # {}
  /\ \A n \in 1 .. Len(parts) - 1 :
       ~(parts[n].kind = "italic" /\ parts[n + 1].kind = "italic")

\* C20: no italic conversion: every single-asterisk span and every
\* underscore span that is not part of a '**' span comes out unchanged (the
\* '**' spans around them become single-asterisk spans).
C20_ItalicUntouched ==
  (Formatted /\ ItalicApart) => result.value = BoldRewritten

\* '*i*' and '_u_' after a bold span
C20_Witness ==
  /\ Formatted
  /\ Len(parts) = 3
  /\ parts[1].kind = "bold" /\ parts[2] = Italic /\ parts[3] = Underscore
  /\ result.value = SingleAsterisks(parts[1].chars) \o Italic.chars \o Underscore.chars

(* ------------------------------ C21 ------------------------------------ *)

\* JIRA_BASE_URL or JIRA_API_TOKEN is absent from the environment
RequiredAbsent == ~env.JIRA_BASE_URL \/ ~env.JIRA_API_TOKEN

\* a service method has been called and has ended (the environment only
\* changes between calls, so env is the environment the call has seen)
CallEnded == pc = "done" /\ op \in Methods

C21_State ==
  /\ clients \in {0, 1}
  /\ initialized <=> clients = 1
  /\ ~jiraService => ~initialized
  /\ CallEnded /\ ~initialized =>
       /\ RequiredAbsent \/ (~env.JIRA_LEGACY_API /\ ~env.JIRA_EMAIL)
       /\ result = Thrown(IF RequiredAbsent THEN MissingVariables ELSE MissingEmail)
  /\ CallEnded /\ RequiredAbsent /\ ~initialized => result = Thrown(MissingVariables)

\* the clients are created only by the step that starts a method call, in an
\* environment with the required variables, on a service without clients;
\* constructing the service creates nothing
C21_Step ==
  /\ clients' # clients \/ initialized' # initialized =>
       /\ pc = "idle" /\ pc' # "idle"
       /\ clients = 0 /\ clients' = 1
       /\ ~RequiredAbsent
  /\ pc' = "idle" => clients' = clients

C29_ReadsAfterDiscovery ==
  isLegacyMode =>
    /\ CallEnded /\ op = "linkIssues" /\ result = Thrown(NotSupported) =>
         serverCapabilities.known /\ ~serverCapabilities.hasIssueLinks
    /\ pc = "request" /\ op = "createTicket" =>
         issuePayload.epicLinkField # NoMappings.epicLink

(* ------------------------------ C22 ------------------------------------ *)

\* the handler resolves in this step
Resolves == pc = "done" /\ pc' = "idle"

\* what the handler resolves with, against what its service call ended with
C22_Step ==
  Resolves =>
    /\ ~result.ok =>
         /\ "isError" \in DOMAIN response'
         /\ response'.isError = TRUE
         /\ response'.content = << [ type |-> "text", text |-> "Error: " \o result.error ] >>
    /\ result.ok =>
         /\ "isError" \notin DOMAIN response'
         /\ Len(response'.content) = 1

\* C22: a handler whose service call has thrown resolves with isError = true
\* and the one text item 'Error: <message>'; a handler whose service call has
\* succeeded resolves with a response that has no isError field.
C22_FailureIsAValue == [][C22_Step]_vars

\* a handler has resolved with the error of a failed request
C22_Witness ==
  /\ pc = "idle"
  /\ "isError" \in DOMAIN response
  /\ response.content[1].text = "Error: " \o ApiError("getTicket")

(* ------------------------------ C23 ------------------------------------ *)

\* the outcome the statement gives to an event, "none" for an event that is
\* not among the listed ones; has(out) says whether stdout indicates a started
\* server
Outcome(e, has(_)) ==
  IF e.event = "data" THEN (IF has(e.output) THEN "true" ELSE "none")
  ELSE IF e.event = "timeout" THEN "true"
  ELSE IF e.event = "close"
       THEN (IF e.code \notin {"null", "0"} /\ ~includesJsonrpc(e.output)
             THEN "false" ELSE "true")
  ELSE "false"

\* the listed events that have occurred
Listed(has(_)) == { n \in 1 .. Len(events) : Outcome(events[n], has) # "none" }

First(has(_)) == CHOOSE n \in Listed(has) : \A m \in Listed(has) : n <= m

\* the promise is pending until the first listed event and holds that
\* event's outcome ever after; the child is killed when that event is stdout
\* output or the timeout
FirstEventWins(has(_)) ==
  /\ verified = "none" => events = << >>
  /\ verified # "none" =>
       IF Listed(has) = {} THEN verified = "pending" /\ ~killed
       ELSE /\ verified = Outcome(events[First(has)], has)
            /\ events[First(has)].event \in {"data", "timeout"} => killed

\* stdout output containing 'jsonrpc'
AsStatedIndicator(out) ==
  includesJsonrpc(out) \/ includesCapabilities(out) \/ includesTools(out)

\* C23 as stated: the promise holds the outcome of the first event among
\* stdout output containing 'jsonrpc', 'capabilities' or 'tools' (true, child
\* killed), the timeout (true, child killed), a close with a non-zero exit code
\* and no 'jsonrpc' in the output (false), any other close (true) and a spawn
\* error (false).
C23_AsStated == FirstEventWins(AsStatedIndicator)

\* C23 (amended): the same, where the stdout output that counts is output
\* containing '"jsonrpc"' with its double quotes, 'capabilities' or 'tools';
\* the close test looks for 'jsonrpc' without quotes.
C23_FirstEventWins == FirstEventWins(initialized_indicated)

\* the child has closed with exit code 1 after the promise was settled by the
\* stdout output, and the promise still holds true
C23_Witness ==
  /\ Len(events) >= 2
  /\ events[Len(events)].event = "close"
  /\ events[Len(events)].code = "1"
  /\ \E n \in 1 .. Len(events) - 1 :
       events[n].event = "data" /\ initialized_indicated(events[n].output)
  /\ ~includesJsonrpc(output)
  /\ verified = "true"
  /\ killed

(* ------------------------------ C24 ------------------------------------ *)

\* createClaudeCodeConfig has been called and the file parsed as JSON
CalledOnJson == config # NoConfig /\ before.kind = "json"

\* the entries of mcpServers other than 'jira-mcp'
OtherEntries(v) ==
  [ k \in DOMAIN v.mcpServers.entries \ {"jira-mcp"} |-> v.mcpServers.entries[k] ]

\* every other mcpServers entry and every other top-level key is equal in the
\* two files
SameElsewhere(a, b) ==
  /\ b.kind = "json"
  /\ b.value.type = a.value.type
  /\ b.value.otherSettings = a.value.otherSettings
  /\ OtherEntries(b.value) = OtherEntries(a.value)

\* mcpServers['jira-mcp'].env holds the supplied values
HoldsEnv(file) ==
  /\ file.kind = "json"
  /\ file.value.type = "object"
  /\ file.value.mcpServers.type = "object"
  /\ "jira-mcp" \in DOMAIN file.value.mcpServers.entries
  /\ file.value.mcpServers.entries["jira-mcp"] = jiraMcp(config)

\* the parsed value is an object whose mcpServers is absent, null or an object
Mergeable(file) ==
  /\ file.value.type = "object"
  /\ file.value.mcpServers.type \in {"absent", "null", "object"}

ReferencedTasks(k) ==
  { t \in topo.tasks :
      \E n \in Indices(topo.links[k]) :
        LET l == topo.links[k][n] IN
          \/ (l.inwardIssue.key = t /\ l.inwardIssue.type = "Task")
          \/ (l.outwardIssue.key = t /\ l.outwardIssue.type = "Task") }

\* transition '31' was applied to issue k during the running call
MovedToDone(k) ==
  \E n \in Indices(calls) :
    calls[n] = Call("updateTicketStatus", k, "31", TRUE)

\* C25: transition '31' is applied to a story only if every Task its links
\* refer to is 'Done' (no task changed its status during the run, so the
\* statuses are those of the whole run), also when a task fetch fails.
C25_DoneOnlyIfAllTasksDone ==
  (op \in {"updateStoryStatusBasedOnTasks", "updateAllStoryStatuses"} /\ changes = 0) =>
    \A k \in Keys(topo) :
      MovedToDone(k) => \A t \in ReferencedTasks(k) : status[t] = "Done"

(* ------------------------------ C26 ------------------------------------ *)

\* the stories a transition was applied to during the running call
Transitioned ==
  { calls[n].key : n \in { m \in Indices(calls) :
                             calls[m].op = "updateTicketStatus" /\ calls[m].ok } }

\* C26: when the batch returns, updates lists exactly the stories a
\* transition was applied to and storiesUpdated is their number, whatever
\* calls failed.
C26_UpdatesAreTransitions ==
  (BatchOver /\ result.ok) =>
    /\ { result.updates[n].storyKey : n \in Indices(result.updates) }
         = Transitioned
    /\ result.storiesUpdated = Cardinality(Transitioned)
    /\ Len(result.updates) = Cardinality(Transitioned)

(* ------------------------------ C27 ------------------------------------ *)

\* the per-story update of k has ended during the running call
UpdateEnded(k) ==
  \/ op = "updateStoryStatusBasedOnTasks" /\ storyKey = k /\ pc \in {"return", "done"}
  \/ op = "updateAllStoryStatuses" /\ \E j \in Indices(attempts) : attempts[j].storyKey = k

UpdateFailed(k) ==
  \/ op = "updateStoryStatusBasedOnTasks" /\ storyKey = k /\ ~ret.ok /\ ~ret.pending
  \/ op = "updateAllStoryStatuses" /\
       \E j \in Indices(attempts) : attempts[j].storyKey = k /\ ~attempts[j].ret.ok

\* C27: the comment on a story is posted right after its transition has
\* succeeded and never otherwise; a run issues at most one transition and
\* one comment for a story; when the transition fails no comment is posted
\* and the update of that story fails.
C27_CommentAfterTransition ==
  op \in {"updateStoryStatusBasedOnTasks", "updateAllStoryStatuses"} =>
    \A k \in Keys(topo) :
      /\ Cardinality(CallsOn(k, {"updateTicketStatus"})) <= 1
      /\ Cardinality(CallsOn(k, {"addComment"})) <= 1
      /\ \A n \in CallsOn(k, {"addComment"}) :
           /\ n > 1
           /\ calls[n - 1].op = "updateTicketStatus"
           /\ calls[n - 1].key = k
           /\ calls[n - 1].ok
      /\ \A n \in CallsOn(k, {"updateTicketStatus"}) :
           ~calls[n].ok =>
             /\ CallsOn(k, {"addComment"}) = {}
             /\ UpdateEnded(k) => UpdateFailed(k)
             /\ (op = "updateStoryStatusBasedOnTasks" /\ pc = "done") => ~result.ok

\* a direct update that moved the story and then posted its comment
C27_Witness ==
  /\ op = "updateStoryStatusBasedOnTasks"
  /\ pc = "done"
  /\ result.ok
  /\ result.updated
  /\ Len(calls) >= 2
  /\ calls[Len(calls) - 1] = Call("updateTicketStatus", storyKey, "21", TRUE)
  /\ calls[Len(calls)] = Call("addComment", storyKey, "", TRUE)

(* -------------------- one batch run after another ---------------------- *)

\* the response of a batch run, remembered for the run that follows: it is
\* clean when the batch returned and no story of it threw
RespondBatch ==
  /\ pc = "done"
  /\ op = "updateAllStoryStatuses"
  /\ previous' = [ op    |-> op,
                   clean |-> /\ result.ok
                             /\ \A j \in 1 .. Len(attempts) : attempts[j].ret.ok ]
  /\ pc' = "idle"
  /\ op' = "none"
  /\ calls' = << >>
  /\ failures' = 0
  /\ changes' = 0
  /\ storyKey' = ""
  /\ result' = NoResult
  /\ FreshBatch
  /\ FreshStory
  /\ UNCHANGED << remoteVars, validation, text, parts, isLegacyMode, serverCapabilities,
                  serviceVars, setupVars, hierarchyVars >>

\* batch runs only, on a remote nobody else writes to
NextRerun ==
  \/ CallUpdateAllStoryStatuses
  \/ GetEpicIssuesOk
  \/ GetEpicIssuesFail
  \/ GetStoryOk
  \/ GetStoryFail
  \/ GetIssueLinksOk
  \/ GetIssueLinksFail
  \/ GetTaskOk
  \/ GetTaskFail
  \/ Analyze
  \/ Decide
  \/ UpdateTicketStatusOk
  \/ UpdateTicketStatusFail
  \/ AddCommentOk
  \/ AddCommentFail
  \/ ReturnToLoop
  \/ RespondBatch

SpecRerun == Init /\ [][NextRerun]_vars

(* ------------------------------ C28 ------------------------------------ *)

\* C28: a batch run that follows a run which completed without a story
\* failing, over unchanged task statuses, issues no transition and no
\* comment and reports storiesUpdated = 0.
C28_FixedPoint ==
  (op = "updateAllStoryStatuses" /\ previous.op = "updateAllStoryStatuses" /\ previous.clean) =>
    /\ \A n \in Indices(calls) : calls[n].op \notin Mutating
    /\ (pc = "done" /\ result.ok) => result.storiesUpdated = 0

(* ------------------------------ C30 ------------------------------------ *)

\* the tasks createProjectHierarchy has created for the story k
TasksGiven(k) == { t \in DOMAIN topo.parents : t \in topo.tasks /\ topo.parents[t] = k }

\* the created stories that were given at least one task
StoriesWithTasks ==
  { k \in DOMAIN topo.parents : topo.parents[k] = EpicKey /\ TasksGiven(k) # {} }

\* C30: after createProjectHierarchy has succeeded, for every created story
\* that was given k >= 1 tasks, analyzeStoryStatus reports total = k and
\* validateProjectStructure of the epic records no 'has no linked tasks'
\* warning for that story.
C30_HierarchyUsable ==
  Created /\ pc = "done" /\ result.ok =>
    /\ op = "analyzeStoryStatus" /\ storyKey \in StoriesWithTasks =>
         result.value.tasksSummary.total = Cardinality(TasksGiven(storyKey))
    /\ op = "validateProjectStructure" =>
         \A k \in StoriesWithTasks :
           \A n \in 1 .. Len(result.value.warnings) :
             result.value.warnings[n] # NoLinkedTasks(k)

====
